---------------------------- MODULE Spec2Model ----------------------------
(***************************************************************************)
(* A model of crate-crypto/proto-danksharding-crypto: KZG commitments in   *)
(* Lagrange form over a roots-of-unity domain, the single-opening proof,   *)
(* the Fiat-Shamir transcript and the aggregated proof.                    *)
(*                                                                         *)
(* Scaling.  The BLS12-381 scalar field (255 bits, two-adicity 32) is      *)
(* replaced by the prime field of 17 elements (two-adicity 4), in which    *)
(* every operation of the code is computed exactly as written.  G1 and G2  *)
(* are groups of prime order 17; a point is represented by its discrete    *)
(* logarithm k (the point k*G), and the pairing e(a*G1, b*G2) = gt^(a*b)   *)
(* by the exponent a*b.  SHA-256 is a function nobody can evaluate here:   *)
(* it is a lazily sampled table (variable oracle), every digest of a small *)
(* set being a possible output for an input not hashed before.             *)
(***************************************************************************)
EXTENDS Integers, Sequences, FiniteSets, TLC

VARIABLES pp, domain, kzg, agg, tr, ctx, oracle, call

vars == <<pp, domain, kzg, agg, tr, ctx, oracle, call>>

----------------------------------------------------------------------------
(* Bounds of the model *)

\* log2 of the domain size used by the single-opening specification
KzgLogSize == 2

\* Evaluations of the polynomials given as inputs
EvalSet == {0, 1, 5}

\* Secrets the insecure setup is run with
TauSet == {3, 4}

\* The aggregated proof runs on a domain of 2^AggLogSize roots, on batches of at
\* most MaxPolys polynomials with evaluations in AggEvalSet
AggLogSize == 1

MaxPolys == 2

AggEvalSet == {0, 1}

\* Two transcripts are fed chunks of ChunkSet, at most MaxRoundLen bytes between
\* two challenge calls, for MaxRounds challenge calls of at most MaxChallenges
\* challenges; append_polys_points gets at most MaxPolys polynomials of TrPolys
\* and points of TrPoints
ChunkSet == {<<1>>, <<2>>, <<1, 2>>}

MaxRoundLen == 2

MaxRounds == 2

MaxChallenges == 2

TrPolys == {<<5>>, <<0, 16>>}

TrPoints == {0, 4}

\* The byte API gets at most MaxPolys blobs, the encodings of CtxPolys; one byte
\* of a blob, at a position of FlipPositions, is changed to a value of
\* FlipValues
CtxPolys == {<<0, 0, 0, 1>>, <<1, 5, 0, 2>>}

FlipPositions == {1, 33, 128}

FlipValues == {1, 255}

\* Batch inversion gets slices of at most MaxBatchLen scalars and runs on a
\* number of threads of NumCpus
MaxBatchLen == 3

NumCpus == {1, 2, 3}

\* The chunked batch inversion, followed worker by worker, gets slices of at
\* most MaxChunkedLen scalars of ChunkedScalars
MaxChunkedLen == 5

ChunkedScalars == {0, 2, 3}

\* The bit-reversal permutation gets vectors of 2^k elements of PermValues,
\* k <= MaxPermLog
MaxPermLog == 2

PermValues == {0, 1, 2}

----------------------------------------------------------------------------
(* A result of a call that may panic *)

Ok(v) == [panic |-> FALSE, val |-> <<v>>]

Panic == [panic |-> TRUE, val |-> <<>>]

Val(r) == r.val[1]

\* A result of a call that returns an Option and may panic
Some(v) == [panic |-> FALSE, some |-> TRUE, val |-> <<v>>]

None == [panic |-> FALSE, some |-> FALSE, val |-> <<>>]

OptPanic == [panic |-> TRUE, some |-> FALSE, val |-> <<>>]

----------------------------------------------------------------------------
(* The scalar field: blstrs::Scalar, scaled to 17 elements *)

ScalarModulus == 17

Scalars == 0 .. (ScalarModulus - 1)

FrAdd(a, b) == (a + b) % ScalarModulus

FrSub(a, b) == (a + ScalarModulus - b) % ScalarModulus

FrNeg(a) == (ScalarModulus - a) % ScalarModulus

FrMul(a, b) == (a * b) % ScalarModulus

RECURSIVE FrPow(_, _)
FrPow(a, e) == IF e = 0 THEN 1 ELSE FrMul(a, FrPow(a, e - 1))

\* Field::invert: a CtOption, none for zero
FrInvert(a) ==
  IF a = 0 THEN Panic
  ELSE Ok(CHOOSE b \in Scalars : FrMul(a, b) = 1)

\* lib.rs inverse: 0 if the element is not invertible
inverse(x) == IF FrInvert(x).panic THEN 0 ELSE Val(FrInvert(x))

RECURSIVE Pow2(_)
Pow2(k) == IF k = 0 THEN 1 ELSE 2 * Pow2(k - 1)

is_power_of_two(n) == \E k \in 0 .. 16 : n = Pow2(k)

trailing_zeros(n) == CHOOSE k \in 0 .. 16 : n % Pow2(k) = 0 /\ n % Pow2(k + 1) # 0

\* The width of usize and u64, scaled from 64 bits
WordBits == 6

\* usize::next_power_of_two: the smallest power of two not below size; when it
\* does not fit the word, a panic with overflow checks and 0 without them
next_power_of_two(size, overflow_checks) ==
  LET n == Pow2(CHOOSE k \in 0 .. WordBits :
                  /\ size <= Pow2(k)
                  /\ \A j \in 0 .. (k - 1) : size > Pow2(j))
  IN  IF n >= Pow2(WordBits) THEN (IF overflow_checks THEN Panic ELSE Ok(0))
      ELSE Ok(n)

----------------------------------------------------------------------------
(* G1, G2 and the pairing.  A point is its discrete logarithm. *)

G1Points == Scalars

G1Add(a, b) == FrAdd(a, b)

G1Sub(a, b) == FrSub(a, b)

G1Mul(a, s) == FrMul(a, s)

G1Generator == 1

G2Generator == 1

\* product_of_pairings(&[(a1, b1), (a2, b2)]).is_one()
PairingProductIsOne(a1, b1, a2, b2) == FrAdd(FrMul(a1, b1), FrMul(a2, b2)) = 0

RECURSIVE SumOver(_, _, _)
SumOver(f, lo, hi) == IF lo > hi THEN 0 ELSE FrAdd(f[lo], SumOver(f, lo + 1, hi))

\* A multi-scalar multiplication: panics on a length mismatch
g1_lincomb(points, scalars) ==
  IF Len(points) # Len(scalars) THEN Panic
  ELSE Ok(SumOver([i \in 1 .. Len(points) |-> G1Mul(points[i], scalars[i])],
                  1, Len(points)))

----------------------------------------------------------------------------
(* The evaluation domain *)

two_adicity == 4

largest_root_of_unity == 3

\* compute_generator_for_size with the exponent of the next larger group
compute_generator_for_size_half_exponent(size) ==
  IF ~is_power_of_two(size) THEN Panic
  ELSE IF trailing_zeros(size) > two_adicity THEN Panic
  ELSE Ok(FrPow(largest_root_of_unity,
                Pow2(two_adicity - trailing_zeros(size)) \div 2))

compute_generator_for_size(size) ==
  IF ~is_power_of_two(size) THEN Panic
  ELSE IF trailing_zeros(size) > two_adicity THEN Panic
  ELSE Ok(FrPow(largest_root_of_unity, Pow2(two_adicity - trailing_zeros(size))))

RECURSIVE RootsFrom(_, _)
RootsFrom(gen, size) ==
  IF size = 1 THEN <<1>>
  ELSE LET prev == RootsFrom(gen, size - 1)
       IN  Append(prev, FrMul(prev[size - 1], gen))

RootsOfUnity_new(size) ==
  IF ~is_power_of_two(size) THEN Panic
  ELSE IF compute_generator_for_size(size).panic THEN Panic
  ELSE Ok([inner |-> RootsFrom(Val(compute_generator_for_size(size)), size),
           inverse_domain_size |-> inverse(size % ScalarModulus)])

RootsOfUnity_size(d) == Len(d.inner)

\* Domain::new: the size is padded to the next power of two
Domain_new(requested_size, overflow_checks) ==
  LET size == IF is_power_of_two(requested_size) THEN Ok(requested_size)
              ELSE next_power_of_two(requested_size, overflow_checks)
  IN  IF size.panic THEN Panic
      ELSE LET generator == compute_generator_for_size(Val(size))
           IN  IF generator.panic THEN Panic
               ELSE LET generator_inv == FrInvert(Val(generator))
                        size_as_scalar == Val(size) % ScalarModulus
                        size_as_scalar_inv == FrInvert(size_as_scalar)
                    IN  IF generator_inv.panic \/ size_as_scalar_inv.panic THEN Panic
                        ELSE Ok([roots |-> RootsFrom(Val(generator), Val(size)),
                                 domain_size |-> size_as_scalar,
                                 domain_size_inv |-> Val(size_as_scalar_inv),
                                 generator |-> Val(generator),
                                 generator_inv |-> Val(generator_inv)])

\* take_even_odd: the elements at even and at odd indices, counted from 0
take_even_odd(list) ==
  [even |-> [i \in 1 .. ((Len(list) + 1) \div 2) |-> list[2 * i - 1]],
   odd |-> [i \in 1 .. (Len(list) \div 2) |-> list[2 * i]]]

RECURSIVE fft_g1(_, _)
fft_g1(nth_root_of_unity, points) ==
  LET n == Len(points)
  IN  IF n = 1 THEN points
      ELSE LET gen_squared == FrMul(nth_root_of_unity, nth_root_of_unity)
               fft_even == fft_g1(gen_squared, take_even_odd(points).even)
               fft_odd == fft_g1(gen_squared, take_even_odd(points).odd)
               half == n \div 2
               tmp(k) == G1Mul(fft_odd[k], FrPow(nth_root_of_unity, k - 1))
           IN  [i \in 1 .. n |->
                  IF i <= half THEN G1Add(fft_even[i], tmp(i))
                  ELSE IF i <= 2 * half THEN G1Sub(fft_even[i - half], tmp(i - half))
                  ELSE 0]

\* Domain::ifft_g1 without the multiplication by domain_size_inv
ifft_g1_unscaled(d, points) ==
  IF Len(points) # Len(d.roots) THEN Panic
  ELSE Ok(fft_g1(d.generator_inv, points))

\* Domain::ifft_g1
ifft_g1(d, points) ==
  IF Len(points) # Len(d.roots) THEN Panic
  ELSE LET transformed == fft_g1(d.generator_inv, points)
       IN  Ok([i \in 1 .. Len(transformed) |-> G1Mul(transformed[i], d.domain_size_inv)])

\* CommitKey::into_lagrange
into_lagrange(self, d) ==
  IF ifft_g1(d, self.inner).panic THEN Panic
  ELSE Ok([inner |-> Val(ifft_g1(d, self.inner))])

RootsOfUnity_contains(d, z) == \E i \in 1 .. Len(d.inner) : d.inner[i] = z

\* Domain::find: the first position of the element, 0 for None
Domain_find(d, z) ==
  IF RootsOfUnity_contains(d, z)
  THEN CHOOSE i \in 1 .. Len(d.inner) :
         /\ d.inner[i] = z
         /\ \A j \in 1 .. (i - 1) : d.inner[j] # z
  ELSE 0

----------------------------------------------------------------------------
(* Polynomials in evaluation form *)

Polynomial_new(evaluations) ==
  IF is_power_of_two(Len(evaluations)) THEN Ok(evaluations) ELSE Panic

\* evaluate_outside_of_domain with the factor domain[i] of each term forgotten
evaluate_outside_of_domain_no_root(poly, z, d) ==
  IF Len(poly) # RootsOfUnity_size(d) THEN Panic
  ELSE IF RootsOfUnity_contains(d, z) THEN Panic
  ELSE LET n == Len(poly)
           terms == [i \in 1 .. n |-> FrMul(poly[i], inverse(FrSub(z, d.inner[i])))]
           result == SumOver(terms, 1, n)
       IN  Ok(FrMul(FrMul(result, FrSub(FrPow(z, n), 1)), d.inverse_domain_size))

evaluate_outside_of_domain(poly, z, d) ==
  IF Len(poly) # RootsOfUnity_size(d) THEN Panic
  ELSE IF RootsOfUnity_contains(d, z) THEN Panic
  ELSE LET n == Len(poly)
           terms == [i \in 1 .. n |->
                       FrMul(FrMul(poly[i], d.inner[i]), inverse(FrSub(z, d.inner[i])))]
           result == SumOver(terms, 1, n)
       IN  Ok(FrMul(FrMul(result, FrSub(FrPow(z, n), 1)), d.inverse_domain_size))

----------------------------------------------------------------------------
(* Batch inversion *)

RECURSIVE PrefixProducts(_, _)
PrefixProducts(v, i) ==
  IF i = 0 THEN <<>>
  ELSE LET prev == PrefixProducts(v, i - 1)
       IN  Append(prev, FrMul(IF i = 1 THEN 1 ELSE prev[i - 1], v[i]))

\* The second pass with tmp never multiplied by the element it leaves
RECURSIVE BackwardPass_stale_tmp(_, _, _, _)
BackwardPass_stale_tmp(v, prod, i, tmp) ==
  IF i = 0 THEN v
  ELSE BackwardPass_stale_tmp([v EXCEPT ![i] = FrMul(tmp, IF i = 1 THEN 1 ELSE prod[i - 1])],
                              prod, i - 1, tmp)

RECURSIVE BackwardPass(_, _, _, _)
BackwardPass(v, prod, i, tmp) ==
  IF i = 0 THEN v
  ELSE BackwardPass([v EXCEPT ![i] = FrMul(tmp, IF i = 1 THEN 1 ELSE prod[i - 1])],
                    prod, i - 1, FrMul(tmp, v[i]))

serial_batch_inversion(v) ==
  IF \E i \in 1 .. Len(v) : v[i] = 0 THEN Panic
  ELSE LET prod == PrefixProducts(v, Len(v))
           tmp == IF Len(v) = 0 THEN 1 ELSE Val(FrInvert(prod[Len(v)]))
       IN  Ok(BackwardPass(v, prod, Len(v), tmp))

batch_inversion(v) == serial_batch_inversion(v)

batch_inverse(elements) == batch_inversion(elements)

Max(a, b) == IF a > b THEN a ELSE b

\* par_chunks_mut(size) followed by for_each: every chunk of size elements (the
\* last one may be shorter) is replaced by its image, image[c] being the result
\* for the c-th chunk; a panic in one chunk is a panic of the whole
ForEachChunk(v, size, image) ==
  LET num_chunks == (Len(v) + size - 1) \div size
  IN  IF \E c \in 1 .. num_chunks : image[c].panic THEN Panic
      ELSE Ok([i \in 1 .. Len(v) |->
                 Val(image[((i - 1) \div size) + 1])[((i - 1) % size) + 1]])

Chunk(v, size, c) == SubSeq(v, (c - 1) * size + 1, IF c * size < Len(v) THEN c * size ELSE Len(v))

\* par_chunks_mut with chunks that begin one element early
par_chunks_mut_overlapping(len, chunk_size) ==
  [c \in 1 .. ((len + chunk_size - 1) \div chunk_size) |->
     Max(1, (c - 1) * chunk_size) .. (IF c * chunk_size < len THEN c * chunk_size ELSE len)]

\* par_chunks_mut(chunk_size) on a slice of len elements: the positions of the
\* c-th mutable chunk
par_chunks_mut(len, chunk_size) ==
  [c \in 1 .. ((len + chunk_size - 1) \div chunk_size) |->
     ((c - 1) * chunk_size + 1) .. (IF c * chunk_size < len THEN c * chunk_size ELSE len)]

\* The sub-slice of v at the positions of range
SliceAt(v, range) ==
  LET lo == CHOOSE i \in range : \A j \in range : i <= j
  IN  [i \in 1 .. Cardinality(range) |-> v[lo + i - 1]]

\* batch_inversion.rs built with the feature rayon, on num_cpus_available threads
batch_inversion_rayon(v, num_cpus_available) ==
  LET min_elements_per_thread == 1
      num_elem_per_thread == Max(Len(v) \div num_cpus_available, min_elements_per_thread)
      num_chunks == (Len(v) + num_elem_per_thread - 1) \div num_elem_per_thread
  IN  ForEachChunk(v, num_elem_per_thread,
                   [c \in 1 .. num_chunks |->
                      serial_batch_inversion(Chunk(v, num_elem_per_thread, c))])

\* v.iter().filter(|f| !f.is_zero_vartime()), from position i on
RECURSIVE FilterNonZero(_, _)
FilterNonZero(v, i) ==
  IF i > Len(v) THEN <<>>
  ELSE (IF v[i] = 0 THEN <<>> ELSE <<v[i]>>) \o FilterNonZero(v, i + 1)

\* The second pass of lib.rs, at position i: zeros are skipped; k counts the
\* non-zero elements not visited yet, the k-th being paired with prod[k - 1]
RECURSIVE lib_BackwardPass(_, _, _, _, _)
lib_BackwardPass(v, prod, i, k, tmp) ==
  IF i = 0 THEN v
  ELSE IF v[i] = 0 THEN lib_BackwardPass(v, prod, i - 1, k, tmp)
  ELSE lib_BackwardPass([v EXCEPT ![i] = FrMul(tmp, IF k = 1 THEN 1 ELSE prod[k - 1])],
                        prod, i - 1, k - 1, FrMul(tmp, v[i]))

\* lib.rs serial_batch_inversion: the first pass is not followed by an assert
lib_serial_batch_inversion(v) ==
  LET non_zero == FilterNonZero(v, 1)
      prod == PrefixProducts(non_zero, Len(non_zero))
      tmp == IF Len(non_zero) = 0 THEN FrInvert(1) ELSE FrInvert(prod[Len(non_zero)])
  IN  IF tmp.panic THEN Panic
      ELSE Ok(lib_BackwardPass(v, prod, Len(v), Len(non_zero), Val(tmp)))

\* lib.rs batch_inversion, on num_cpus_available threads
lib_batch_inversion(v, num_cpus_available) ==
  LET min_elements_per_thread == 1
      num_elem_per_thread == Max(Len(v) \div num_cpus_available, min_elements_per_thread)
      num_chunks == (Len(v) + num_elem_per_thread - 1) \div num_elem_per_thread
  IN  ForEachChunk(v, num_elem_per_thread,
                   [c \in 1 .. num_chunks |->
                      lib_serial_batch_inversion(Chunk(v, num_elem_per_thread, c))])

\* lib.rs batch_inverse
lib_batch_inverse(elements, num_cpus_available) ==
  lib_batch_inversion(elements, num_cpus_available)

----------------------------------------------------------------------------
(* The quotient polynomial *)

\* compute_quotient_outside_domain with the denominators input_point - root
compute_quotient_outside_domain_swapped(poly, input_point, output_point, d) ==
  LET denom == [i \in 1 .. Len(d.inner) |-> FrSub(input_point, d.inner[i])]
      inv == batch_inverse(denom)
  IN  IF inv.panic THEN Panic
      ELSE Polynomial_new([i \in 1 .. Len(d.inner) |->
                             FrMul(FrSub(poly[i], output_point), Val(inv)[i])])

compute_quotient_outside_domain(poly, input_point, output_point, d) ==
  LET denom == [i \in 1 .. Len(d.inner) |-> FrSub(d.inner[i], input_point)]
      inv == batch_inverse(denom)
  IN  IF inv.panic THEN Panic
      ELSE Polynomial_new([i \in 1 .. Len(d.inner) |->
                             FrMul(FrSub(poly[i], output_point), Val(inv)[i])])

\* The sum is computed and then discarded: the function ends with todo!()
compute_quotient_eval_within_domain(poly, index_in_domain, output_point, d) == Panic

compute_quotient_in_domain(poly, index_in_domain, output_point, d) ==
  LET input_point == d.inner[index_in_domain]
      denom == [i \in 1 .. Len(d.inner) |->
                  IF i = index_in_domain THEN 1 ELSE FrSub(d.inner[i], input_point)]
      inv == batch_inverse(denom)
      at_m == compute_quotient_eval_within_domain(poly, index_in_domain, output_point, d)
  IN  IF inv.panic \/ at_m.panic THEN Panic
      ELSE Polynomial_new([i \in 1 .. Len(d.inner) |->
                             IF i = index_in_domain THEN Val(at_m)
                             ELSE FrMul(FrSub(poly[i], output_point), Val(inv)[i])])

compute_quotient(poly, input_point, output_point, d) ==
  IF Domain_find(d, input_point) # 0
  THEN compute_quotient_in_domain(poly, Domain_find(d, input_point), output_point, d)
  ELSE compute_quotient_outside_domain(poly, input_point, output_point, d)

----------------------------------------------------------------------------
(* Commit key, opening key, public parameters *)

CommitKeyLagrange_commit(ck, poly) == g1_lincomb(ck.inner, poly)

RECURSIVE ProdOver(_, _, _)
ProdOver(f, lo, hi) == IF lo > hi THEN 1 ELSE FrMul(f[lo], ProdOver(f, lo + 1, hi))

\* evaluate_all_lagrange_coefficients(tau)[i]: L_i(tau) on the domain roots
LagrangeCoefficient(roots, i, tau) ==
  ProdOver([j \in 1 .. Len(roots) |->
              IF j = i THEN 1
              ELSE FrMul(FrSub(tau, roots[j]), inverse(FrSub(roots[i], roots[j])))],
           1, Len(roots))

compute_lagrange_srs(max_degree, tau, g) ==
  LET roots == Val(RootsOfUnity_new(max_degree)).inner
  IN  [i \in 1 .. max_degree |-> G1Mul(g, LagrangeCoefficient(roots, i, tau))]

OpeningKey_new(g1_gen, g2_gen, tau_g2_gen) ==
  [g1_gen |-> g1_gen, g2_gen |-> g2_gen, tau_g2_gen |-> tau_g2_gen]

PublicParameters_from_secret(tau, num_g1) ==
  [commit_key |-> [inner |-> compute_lagrange_srs(num_g1, tau % ScalarModulus, G1Generator)],
   opening_key |-> OpeningKey_new(G1Generator, G2Generator,
                                  FrMul(G2Generator, tau % ScalarModulus))]

\* OpeningKey::verify with the negation of X - z forgotten
OpeningKey_verify_unnegated(ok, input_point, output_point, poly_comm, witness_comm) ==
  LET inner_a == G1Sub(poly_comm, G1Mul(ok.g1_gen, output_point))
      inner_b == FrSub(ok.tau_g2_gen, FrMul(ok.g2_gen, input_point))
  IN  PairingProductIsOne(inner_a, ok.g2_gen, witness_comm, inner_b)

OpeningKey_verify(ok, input_point, output_point, poly_comm, witness_comm) ==
  LET inner_a == G1Sub(poly_comm, G1Mul(ok.g1_gen, output_point))
      inner_b == FrSub(ok.tau_g2_gen, FrMul(ok.g2_gen, input_point))
  IN  PairingProductIsOne(inner_a, ok.g2_gen, witness_comm, FrNeg(inner_b))

----------------------------------------------------------------------------
(* The single-opening proof *)

KZGProof_create(commit_key, poly, poly_comm, input_point, d) ==
  LET output_point == evaluate_outside_of_domain(poly, input_point, d)
  IN  IF output_point.panic THEN Panic
      ELSE LET quotient == compute_quotient(poly, input_point, Val(output_point), d)
           IN  IF quotient.panic THEN Panic
               ELSE LET quotient_comm == CommitKeyLagrange_commit(commit_key, Val(quotient))
                    IN  IF quotient_comm.panic THEN Panic
                        ELSE Ok([polynomial_commitment |-> poly_comm,
                                 quotient_commitment |-> Val(quotient_comm),
                                 output_point |-> Val(output_point)])

KZGProof_verify(proof, input_point, opening_key) ==
  OpeningKey_verify(opening_key, input_point, proof.output_point,
                    proof.polynomial_commitment, proof.quotient_commitment)

----------------------------------------------------------------------------
(* Byte encodings *)

\* The first n bytes of v, least significant first
RECURSIVE LEBytes(_, _)
LEBytes(v, n) == IF n = 0 THEN <<>> ELSE <<v % 256>> \o LEBytes(v \div 256, n - 1)

\* The first n bytes of v, most significant first
RECURSIVE BEBytes(_, _)
BEBytes(v, n) == IF n = 0 THEN <<>> ELSE BEBytes(v \div 256, n - 1) \o <<v % 256>>

SCALAR_SERIALIZED_SIZE == 32

G1_SERIALISED_SIZE == 48

ScalarEncoding == [s \in Scalars |-> LEBytes(s, SCALAR_SERIALIZED_SIZE)]

\* Scalar::to_bytes_le
to_bytes_le(s) == ScalarEncoding[s]

\* u64::to_le_bytes
u64_to_le_bytes(v) == LEBytes(v, 8)

\* from_le_bytes_mod_order: the little-endian integer, reduced
RECURSIVE LEModOrder(_, _)
LEModOrder(bytes, i) ==
  IF i > Len(bytes) THEN 0
  ELSE (bytes[i] + 256 * LEModOrder(bytes, i + 1)) % ScalarModulus

unreduced_bytes_to_scalar(hash) == LEModOrder(hash, 1)

\* The base field and the curve of G1, scaled: y^2 = x^3 + 2x + 4 over the field
\* of 13 elements, a group of prime order 17 generated by (0, 2)
FqModulus == 13

CurveA == 2

G1GeneratorAffine == [x |-> 0, y |-> 2, infinity |-> FALSE]

G1Identity == [x |-> 0, y |-> 0, infinity |-> TRUE]

FqInv(a) == CHOOSE b \in 0 .. (FqModulus - 1) : (a * b) % FqModulus = 1

FqSub(a, b) == (a + FqModulus * FqModulus - b) % FqModulus

CurveAdd(P, Q) ==
  IF P.infinity THEN Q
  ELSE IF Q.infinity THEN P
  ELSE IF P.x = Q.x /\ (P.y + Q.y) % FqModulus = 0 THEN G1Identity
  ELSE LET lambda == IF P = Q
                     THEN ((3 * P.x * P.x + CurveA) * FqInv((2 * P.y) % FqModulus)) % FqModulus
                     ELSE (FqSub(Q.y, P.y) * FqInv(FqSub(Q.x, P.x))) % FqModulus
           x3 == FqSub(FqSub(lambda * lambda, P.x), Q.x)
       IN  [x |-> x3, y |-> FqSub(lambda * FqSub(P.x, x3), P.y), infinity |-> FALSE]

RECURSIVE CurveMul(_)
CurveMul(k) == IF k = 0 THEN G1Identity ELSE CurveAdd(CurveMul(k - 1), G1GeneratorAffine)

\* The affine coordinates of the point k*G
G1Affine == [k \in G1Points |-> CurveMul(k)]

\* The compressed encoding: flags (compression, infinity, sign of y) in the top
\* three bits of byte 0, then the x coordinate, big-endian
G1Encoding ==
  [point \in G1Points |->
     LET P == G1Affine[point]
         x_bytes == BEBytes(P.x, G1_SERIALISED_SIZE)
         flags == 128 + (IF P.infinity THEN 64 ELSE 0)
                      + (IF ~P.infinity /\ P.y > (FqModulus - P.y) % FqModulus
                         THEN 32 ELSE 0)
     IN  [x_bytes EXCEPT ![1] = @ + flags]]

\* G1Affine::to_compressed
to_compressed(point) == G1Encoding[point]

----------------------------------------------------------------------------
(* SHA-256, lazily sampled: oracle holds the digest of every input hashed *)

HASH_OUTPUT_SIZE == 32

\* Digests an input not hashed before may have: 0, 1 and 20 = 3 mod 17
DigestValues == {0, 1, 20}

Digests == {LEBytes(v, HASH_OUTPUT_SIZE) : v \in DigestValues}

Hashed(orc, input) == \E e \in orc : e.input = input

Sha256(orc, input) == (CHOOSE e \in orc : e.input = input).digest

\* The possible outcomes of hashing input: its digest and the table afterwards.
\* An operation that hashes is the set of its possible outcomes.
hash(orc, input) ==
  IF Hashed(orc, input) THEN {[digest |-> Sha256(orc, input), orc |-> orc]}
  ELSE {[digest |-> d, orc |-> orc \cup {[input |-> input, digest |-> d]}] : d \in Digests}

----------------------------------------------------------------------------
(* The Fiat-Shamir transcript.  calls is the history of the public calls. *)

\* eip4844 constants: the secret of the insecure setup
SECRET_TAU == 1337

DOM_SEP_PROTOCOL == <<70, 83, 66, 76, 79, 66, 86, 69, 82, 73, 70, 89, 95, 86, 49, 95>>

Call(op, arg) == [op |-> op, arg |-> arg]

Transcript_new == [bytes |-> <<>>, calls |-> <<Call("new", 0)>>]

Transcript_with_protocol_name(label) ==
  [bytes |-> label, calls |-> <<Call("with_protocol_name", Len(label))>>]

\* append_bytes writing the length of the message before it
append_bytes_framed(t, to_append) ==
  [t EXCEPT !.bytes = (t.bytes \o <<Len(to_append)>>) \o to_append]

append_bytes(t, to_append) == [t EXCEPT !.bytes = t.bytes \o to_append]

RECURSIVE PolynomialBytes(_, _)
PolynomialBytes(poly, i) ==
  IF i > Len(poly) THEN <<>> ELSE to_bytes_le(poly[i]) \o PolynomialBytes(poly, i + 1)

append_polynomial(t, poly) ==
  [append_bytes(t, PolynomialBytes(poly, 1))
     EXCEPT !.calls = Append(t.calls, Call("append_polynomial", Len(poly)))]

append_g1_point(t, point) ==
  [append_bytes(t, to_compressed(point))
     EXCEPT !.calls = Append(t.calls, Call("append_g1_point", 1))]

RECURSIVE AppendPolynomials(_, _, _)
AppendPolynomials(t, polys, j) ==
  IF j > Len(polys) THEN t
  ELSE AppendPolynomials(append_polynomial(t, polys[j]), polys, j + 1)

RECURSIVE AppendPoints(_, _, _)
AppendPoints(t, points, j) ==
  IF j > Len(points) THEN t
  ELSE AppendPoints(append_g1_point(t, points[j]), points, j + 1)

\* append_polys_points writing the number of polynomials before their size
append_polys_points_count_first(t, polys, points) ==
  IF Len(points) # Len(polys) THEN Panic
  ELSE IF Len(points) = 0 THEN Panic
  ELSE LET t1 == append_bytes(t, u64_to_le_bytes(Len(polys)))
           t2 == append_bytes(t1, u64_to_le_bytes(Len(polys[1])))
           t3 == AppendPoints(AppendPolynomials(t2, polys, 1), points, 1)
       IN  Ok([t3 EXCEPT !.calls = Append(t.calls, Call("append_polys_points", Len(polys)))])

append_polys_points(t, polys, points) ==
  IF Len(points) # Len(polys) THEN Panic
  ELSE IF Len(points) = 0 THEN Panic
  ELSE LET t1 == append_bytes(t, u64_to_le_bytes(Len(polys[1])))
           t2 == append_bytes(t1, u64_to_le_bytes(Len(polys)))
           t3 == AppendPoints(AppendPolynomials(t2, polys, 1), points, 1)
       IN  Ok([t3 EXCEPT !.calls = Append(t.calls, Call("append_polys_points", Len(polys)))])

hash_transcript(t, orc) == hash(orc, t.bytes)

\* The challenges with index from challenge_index on, and the table after them
RECURSIVE ChallengeLoop(_, _, _, _)
ChallengeLoop(compressed_state, challenge_index, num_challenges, orc) ==
  IF challenge_index >= num_challenges THEN {[out |-> <<>>, orc |-> orc]}
  ELSE UNION {
         {[out |-> <<unreduced_bytes_to_scalar(challenge_hash.digest)>> \o rest.out,
           orc |-> rest.orc] :
            rest \in ChallengeLoop(compressed_state, challenge_index + 1, num_challenges,
                                   challenge_hash.orc)} :
         challenge_hash \in hash(orc, Append(compressed_state, challenge_index))}

\* challenge_scalars numbering the challenges from one
challenge_scalars_index_from_one(t, num_challenges, orc) ==
  UNION {
    {[t |-> [bytes |-> compressed_state.digest,
             calls |-> Append(t.calls, Call("challenge_scalars", num_challenges))],
      out |-> loop.out,
      orc |-> loop.orc] :
       loop \in ChallengeLoop(compressed_state.digest, 1, num_challenges + 1,
                              compressed_state.orc)} :
    compressed_state \in hash_transcript(t, orc)}

challenge_scalars(t, num_challenges, orc) ==
  UNION {
    {[t |-> [bytes |-> compressed_state.digest,
             calls |-> Append(t.calls, Call("challenge_scalars", num_challenges))],
      out |-> loop.out,
      orc |-> loop.orc] :
       loop \in ChallengeLoop(compressed_state.digest, 0, num_challenges,
                              compressed_state.orc)} :
    compressed_state \in hash_transcript(t, orc)}

challenge_scalar(t, orc) ==
  {[t |-> [c.t EXCEPT !.calls = Append(t.calls, Call("challenge_scalar", 1))],
    out |-> c.out[1],
    orc |-> c.orc] : c \in challenge_scalars(t, 1, orc)}

----------------------------------------------------------------------------
(* The aggregated proof *)

scale_polynomial(poly, scalar) ==
  Polynomial_new([i \in 1 .. Len(poly) |-> FrMul(poly[i], scalar)])

Min(a, b) == IF a < b THEN a ELSE b

\* The fold of matrix_lincomb from row j on; zip stops at the shorter operand
RECURSIVE MatrixFold(_, _, _, _)
MatrixFold(matrix, scalars, sum, j) ==
  IF j > Min(Len(matrix), Len(scalars)) THEN Ok(sum)
  ELSE LET val == scale_polynomial(matrix[j], scalars[j])
       IN  IF val.panic THEN Panic
           ELSE MatrixFold(matrix, scalars,
                           [i \in 1 .. Min(Len(sum), Len(Val(val))) |->
                              FrAdd(sum[i], Val(val)[i])],
                           j + 1)

\* matrix_lincomb with the scalars forgotten: the sum of the rows
matrix_lincomb_unscaled(matrix, scalars) ==
  IF Len(matrix) = 0 THEN Panic
  ELSE LET row_len == Len(matrix[1])
           result == MatrixFold(matrix, [j \in 1 .. Len(scalars) |-> 1],
                                [i \in 1 .. row_len |-> 0], 1)
       IN  IF result.panic THEN Panic ELSE Polynomial_new(Val(result))

matrix_lincomb(matrix, scalars) ==
  IF Len(matrix) = 0 THEN Panic
  ELSE LET row_len == Len(matrix[1])
           result == MatrixFold(matrix, scalars, [i \in 1 .. row_len |-> 0], 1)
       IN  IF result.panic THEN Panic ELSE Polynomial_new(Val(result))

\* compute_powers with the first power x instead of one
RECURSIVE compute_powers_from_x(_, _)
compute_powers_from_x(x, n) ==
  IF n = 0 THEN <<>> ELSE Append(compute_powers_from_x(x, n - 1), FrPow(x, n))

RECURSIVE compute_powers(_, _)
compute_powers(x, n) ==
  IF n = 0 THEN <<>> ELSE Append(compute_powers(x, n - 1), FrPow(x, n - 1))

AggregatedKZG_empty == [polys |-> <<>>, poly_comms |-> <<>>]

\* AggregatedKZG::add with the commitment put in front of the others
AggregatedKZG_add_comm_first(self, poly, comm) ==
  [polys |-> Append(self.polys, poly), poly_comms |-> <<comm>> \o self.poly_comms]

AggregatedKZG_add(self, poly, comm) ==
  [polys |-> Append(self.polys, poly), poly_comms |-> Append(self.poly_comms, comm)]

AggregatedKZG_from_polys(polys, poly_comms) ==
  IF Len(polys) # Len(poly_comms) THEN Panic
  ELSE Ok([polys |-> polys, poly_comms |-> poly_comms])

\* A call that aborted after the hash queries in orc and the challenges drawn
AggPanic(t, orc, challenges) ==
  [panic |-> TRUE, t |-> t, orc |-> orc, challenges |-> challenges]

compute_aggregate_poly_and_comm(transcript, polys, poly_comms, orc) ==
  IF Len(polys) # Len(poly_comms) THEN {AggPanic(transcript, orc, <<>>)}
  ELSE LET t1 == AppendPoints(AppendPolynomials(transcript, polys, 1), poly_comms, 1)
       IN  {LET challenge == c.out
                powers == compute_powers(challenge, Len(poly_comms))
                aggregated_poly == matrix_lincomb(polys, powers)
                aggregated_poly_comm == g1_lincomb(poly_comms, powers)
            IN  IF aggregated_poly.panic \/ aggregated_poly_comm.panic
                THEN AggPanic(c.t, c.orc, <<challenge>>)
                ELSE [panic |-> FALSE, t |-> c.t, orc |-> c.orc,
                      challenges |-> <<challenge>>,
                      aggregated_poly |-> Val(aggregated_poly),
                      aggregated_comm |-> Val(aggregated_poly_comm)] :
              c \in challenge_scalar(t1, orc)}

\* The part create and verify share: aggregate, append the aggregate, draw x
AggregateAndChallenge(self, orc) ==
  UNION {
    IF a.panic THEN {a}
    ELSE LET t2 == append_g1_point(append_polynomial(a.t, a.aggregated_poly),
                                   a.aggregated_comm)
         IN  {[a EXCEPT !.t = c.t, !.orc = c.orc,
                        !.challenges = Append(a.challenges, c.out)] :
                c \in challenge_scalar(t2, a.orc)} :
    a \in compute_aggregate_poly_and_comm(Transcript_new, self.polys, self.poly_comms, orc)}

AggregatedKZG_create(self, commit_key, d, orc) ==
  {IF a.panic THEN a
   ELSE LET x == a.challenges[2]
            proof == KZGProof_create(commit_key, a.aggregated_poly, a.aggregated_comm, x, d)
        IN  IF proof.panic THEN AggPanic(a.t, a.orc, a.challenges)
            ELSE [panic |-> FALSE, t |-> a.t, orc |-> a.orc, challenges |-> a.challenges,
                  val |-> Val(proof).quotient_commitment] :
     a \in AggregateAndChallenge(self, orc)}

\* AggregatedKZG::verify checking against the first commitment, not the aggregate
AggregatedKZG_verify_first_comm(self, opening_key, quotient_commitment, d, orc) ==
  {IF a.panic THEN a
   ELSE LET x == a.challenges[2]
            y == evaluate_outside_of_domain(a.aggregated_poly, x, d)
        IN  IF y.panic THEN AggPanic(a.t, a.orc, a.challenges)
            ELSE LET proof == [polynomial_commitment |-> self.poly_comms[1],
                               quotient_commitment |-> quotient_commitment,
                               output_point |-> Val(y)]
                 IN  [panic |-> FALSE, t |-> a.t, orc |-> a.orc,
                      challenges |-> a.challenges,
                      val |-> KZGProof_verify(proof, x, opening_key)] :
     a \in AggregateAndChallenge(self, orc)}

AggregatedKZG_verify(self, opening_key, quotient_commitment, d, orc) ==
  {IF a.panic THEN a
   ELSE LET x == a.challenges[2]
            y == evaluate_outside_of_domain(a.aggregated_poly, x, d)
        IN  IF y.panic THEN AggPanic(a.t, a.orc, a.challenges)
            ELSE LET proof == [polynomial_commitment |-> a.aggregated_comm,
                               quotient_commitment |-> quotient_commitment,
                               output_point |-> Val(y)]
                 IN  [panic |-> FALSE, t |-> a.t, orc |-> a.orc,
                      challenges |-> a.challenges,
                      val |-> KZGProof_verify(proof, x, opening_key)] :
     a \in AggregateAndChallenge(self, orc)}

----------------------------------------------------------------------------
(* bls_point_encoding.rs: the compressed encoding of arkworks points.  G2 is
   scaled to the same curve over the quadratic extension F_13[u]/(u^2 - 2) *)

G2_SERIALISED_SIZE == 96

Fq == 0 .. (FqModulus - 1)

\* G1Affine::default(): the point at infinity of arkworks
G1AffineDefault == [x |-> 0, y |-> 1, infinity |-> TRUE]

\* The points of the curve, and the point at infinity
ArkG1Points == {G1Affine[k] : k \in G1Points \ {0}} \cup {G1AffineDefault}

Fq2NonResidue == 2

Fq2 == [c0 : Fq, c1 : Fq]

Fp2_new(c0, c1) == [c0 |-> c0, c1 |-> c1]

Fq2Add(a, b) == Fp2_new((a.c0 + b.c0) % FqModulus, (a.c1 + b.c1) % FqModulus)

Fq2Neg(a) == Fp2_new((FqModulus - a.c0) % FqModulus, (FqModulus - a.c1) % FqModulus)

Fq2Mul(a, b) ==
  Fp2_new((a.c0 * b.c0 + Fq2NonResidue * a.c1 * b.c1) % FqModulus,
          (a.c0 * b.c1 + a.c1 * b.c0) % FqModulus)

\* Ord for Fp2: by c1, then by c0
Fq2Greater(a, b) == a.c1 > b.c1 \/ (a.c1 = b.c1 /\ a.c0 > b.c0)

\* x^3 + a x + b on the extension
G2CurveRhs(x) ==
  Fq2Add(Fq2Add(Fq2Mul(Fq2Mul(x, x), x), Fq2Mul(Fp2_new(CurveA, 0), x)),
         Fp2_new((G1GeneratorAffine.y * G1GeneratorAffine.y) % FqModulus, 0))

G2AffineDefault == [x |-> Fp2_new(0, 0), y |-> Fp2_new(1, 0), infinity |-> TRUE]

ArkG2Points ==
  {P \in [x : Fq2, y : Fq2, infinity : {FALSE}] : Fq2Mul(P.y, P.y) = G2CurveRhs(P.x)}
    \cup {G2AffineDefault}

TestBit(byte, b) == (byte \div Pow2(b)) % 2

\* byte |= 1 << b
SetBit(byte, b) == IF TestBit(byte, b) = 1 THEN byte ELSE byte + Pow2(b)

\* The six limbs, most significant first, each big-endian
serialise_fq(field) == BEBytes(field, G1_SERIALISED_SIZE)

\* Fq::from_repr: none for an integer that is not below the modulus
deserialise_fq(bytes) ==
  IF \E i \in 1 .. (G1_SERIALISED_SIZE - 1) : bytes[i] # 0 THEN None
  ELSE IF bytes[G1_SERIALISED_SIZE] >= FqModulus THEN None
  ELSE Some(bytes[G1_SERIALISED_SIZE])

serialize_g1_x(p) == serialise_fq(p.x)

\* serialize_g2_x with c0 written before c1
serialize_g2_x_c0_first(p) == serialise_fq(p.x.c0) \o serialise_fq(p.x.c1)

serialize_g2_x(p) == serialise_fq(p.x.c1) \o serialise_fq(p.x.c0)

get_flags(bytes) ==
  [is_compressed |-> TestBit(bytes[1], 7) = 1,
   is_infinity |-> TestBit(bytes[1], 6) = 1,
   is_lexographically_largest |-> TestBit(bytes[1], 5) = 1]

encode_flags(self, bytes) ==
  LET b7 == IF self.is_compressed THEN SetBit(bytes[1], 7) ELSE bytes[1]
      b6 == IF self.is_infinity THEN SetBit(b7, 6) ELSE b7
      b5 == IF self.is_compressed /\ ~self.is_infinity /\ self.is_lexographically_largest
            THEN SetBit(b6, 5) ELSE b6
  IN  [bytes EXCEPT ![1] = b5]

serialize_g1(p) ==
  encode_flags([is_compressed |-> TRUE,
                is_infinity |-> p.infinity,
                is_lexographically_largest |-> p.y > (FqModulus - p.y) % FqModulus],
               serialize_g1_x(p))

serialize_g2(p) ==
  encode_flags([is_compressed |-> TRUE,
                is_infinity |-> p.infinity,
                is_lexographically_largest |-> Fq2Greater(p.y, Fq2Neg(p.y))],
               serialize_g2_x(p))

\* G1Affine::get_point_from_x: the root of x^3 + a x + b chosen by the flag
G1_get_point_from_x(x, greatest) ==
  LET x3b == (x * x * x + CurveA * x + G1GeneratorAffine.y * G1GeneratorAffine.y) % FqModulus
  IN  IF ~\E r \in Fq : (r * r) % FqModulus = x3b THEN None
      ELSE LET y == CHOOSE r \in Fq : (r * r) % FqModulus = x3b
               negy == (FqModulus - y) % FqModulus
           IN  Some([x |-> x, y |-> IF (y < negy) # greatest THEN y ELSE negy,
                     infinity |-> FALSE])

G2_get_point_from_x(x, greatest) ==
  IF ~\E r \in Fq2 : Fq2Mul(r, r) = G2CurveRhs(x) THEN None
  ELSE LET y == CHOOSE r \in Fq2 : Fq2Mul(r, r) = G2CurveRhs(x)
           negy == Fq2Neg(y)
       IN  Some([x |-> x, y |-> IF Fq2Greater(negy, y) # greatest THEN y ELSE negy,
                 infinity |-> FALSE])

\* tmp[0] &= 0b0001_1111
MaskFlags(bytes) == [bytes EXCEPT ![1] = @ % 32]

deserialize_g1(bytes) ==
  LET flags == get_flags(bytes)
  IN  IF ~flags.is_compressed THEN None
      ELSE IF flags.is_infinity THEN Some(G1AffineDefault)
      ELSE LET x == deserialise_fq(MaskFlags(SubSeq(bytes, 1, 48)))
           IN  IF ~x.some THEN None
               ELSE G1_get_point_from_x(Val(x), flags.is_lexographically_largest)

deserialize_g2(bytes) ==
  LET flags == get_flags(bytes)
  IN  IF flags.is_infinity THEN Some(G2AffineDefault)
      ELSE IF ~flags.is_compressed THEN None
      ELSE LET xc1 == deserialise_fq(MaskFlags(SubSeq(bytes, 1, 48)))
               xc0 == deserialise_fq(SubSeq(bytes, 49, 96))
           IN  IF ~xc1.some \/ ~xc0.some THEN None
               ELSE G2_get_point_from_x(Fp2_new(Val(xc0), Val(xc1)),
                                        flags.is_lexographically_largest)

----------------------------------------------------------------------------
(* The byte API of eip4844: Context *)

\* constants.rs, scaled from 2^12 to 2^2 field elements
FIELD_ELEMENTS_PER_BLOB == 4

\* Scalar::from_bytes_le: the scalar of a canonical encoding
bytes_to_scalar(scalar_bytes) ==
  IF \E s \in Scalars : to_bytes_le(s) = scalar_bytes
  THEN Some(CHOOSE s \in Scalars : to_bytes_le(s) = scalar_bytes)
  ELSE None

\* G1Point::from_compressed: the point of a valid encoding
bytes_to_point(point_bytes) ==
  IF \E point \in G1Points : to_compressed(point) = point_bytes
  THEN Some(CHOOSE point \in G1Points : to_compressed(point) = point_bytes)
  ELSE None

\* 64 - num.leading_zeros(), the number of bits of num
RECURSIVE min_num_bits_needed(_)
min_num_bits_needed(num) == IF num = 0 THEN 0 ELSE 1 + min_num_bits_needed(num \div 2)

\* The bits low bits of num in reverse order
RECURSIVE ReverseLowBits(_, _)
ReverseLowBits(num, bits) ==
  IF bits = 0 THEN 0
  ELSE (num % 2) * Pow2(bits - 1) + ReverseLowBits(num \div 2, bits - 1)

\* num.reverse_bits() >> (65 - min_num_bits_needed(order)), in words of WordBits
\* bits.  A shift by the width of the word (order 1) overflows: a panic with
\* overflow checks, a shift by the amount modulo the width without them.
reverse_bits(num, order, overflow_checks) ==
  IF ~is_power_of_two(order) THEN Panic
  ELSE LET shift == (WordBits + 1) - min_num_bits_needed(order)
       IN  IF shift >= WordBits /\ overflow_checks THEN Panic
           ELSE Ok(ReverseLowBits(num, WordBits) \div Pow2(shift % WordBits))

\* vector[p_i] panics when p_i is out of bounds
bit_reversal_permutation(vector, overflow_checks) ==
  IF \E i \in 1 .. Len(vector) :
       \/ reverse_bits(i - 1, Len(vector), overflow_checks).panic
       \/ Val(reverse_bits(i - 1, Len(vector), overflow_checks)) >= Len(vector)
  THEN Panic
  ELSE Ok([i \in 1 .. Len(vector) |->
             vector[Val(reverse_bits(i - 1, Len(vector), overflow_checks)) + 1]])

\* u32, scaled from 32 bits
HalfWordBits == 3

\* specs: u32::BITS - number.leading_zeros()
num_bits_needed(number) == min_num_bits_needed(number)

\* specs reverse_bits: num is written in binary, padded with zeros to the
\* number of bits of (order - 1) as u32 (a number with more bits is written in
\* full, and 0 is written "0"), the string is reversed and read back
specs_reverse_bits(num, order) ==
  IF ~is_power_of_two(order) THEN Panic
  ELSE LET width == num_bits_needed((order - 1) % Pow2(HalfWordBits))
           digits == Max(width, Max(1, min_num_bits_needed(num)))
       IN  Ok(ReverseLowBits(num, digits))

specs_bit_reversal_permutation(vector) ==
  IF \E i \in 1 .. Len(vector) :
       \/ specs_reverse_bits(i - 1, Len(vector)).panic
       \/ Val(specs_reverse_bits(i - 1, Len(vector))) >= Len(vector)
  THEN Panic
  ELSE Ok([i \in 1 .. Len(vector) |->
             vector[Val(specs_reverse_bits(i - 1, Len(vector))) + 1]])

\* Permutable for Domain
Domain_permute(d, overflow_checks) ==
  LET permuted_roots == bit_reversal_permutation(d.roots, overflow_checks)
  IN  IF permuted_roots.panic THEN Panic
      ELSE Ok([roots |-> Val(permuted_roots),
               domain_size |-> d.domain_size,
               domain_size_inv |-> d.domain_size_inv,
               generator |-> d.generator,
               generator_inv |-> d.generator_inv])

\* Permutable for RootsOfUnity
RootsOfUnity_permute(d, overflow_checks) ==
  [d EXCEPT !.inner = Val(bit_reversal_permutation(d.inner, overflow_checks))]

\* Permutable for PublicParameters with the permutation applied a second time
PublicParameters_permute_twice(params, overflow_checks) ==
  [params EXCEPT !.commit_key.inner =
                   Val(bit_reversal_permutation(
                         Val(bit_reversal_permutation(params.commit_key.inner, overflow_checks)),
                         overflow_checks))]

\* Permutable for PublicParameters
PublicParameters_permute(params, overflow_checks) ==
  [params EXCEPT !.commit_key.inner =
                   Val(bit_reversal_permutation(params.commit_key.inner, overflow_checks))]

\* Context::new_insecure, in a build with or without overflow checks
Context_new_insecure(overflow_checks) ==
  LET num_g1 == FIELD_ELEMENTS_PER_BLOB
      secret == SECRET_TAU
  IN  [public_parameters |->
         PublicParameters_permute(PublicParameters_from_secret(secret, num_g1),
                                  overflow_checks),
       roots_of_unity |-> RootsOfUnity_permute(Val(RootsOfUnity_new(num_g1)),
                                               overflow_checks)]

\* The scalars of the chunks from chunk i on: None at the first chunk that is
\* not canonical
RECURSIVE ChunksToScalars(_, _)
ChunksToScalars(bytes, i) ==
  IF i > Len(bytes) \div SCALAR_SERIALIZED_SIZE THEN Some(<<>>)
  ELSE LET chunk32 == SubSeq(bytes, (i - 1) * SCALAR_SERIALIZED_SIZE + 1,
                             i * SCALAR_SERIALIZED_SIZE)
           scalar == bytes_to_scalar(chunk32)
       IN  IF ~scalar.some THEN None
           ELSE LET rest == ChunksToScalars(bytes, i + 1)
                IN  IF ~rest.some THEN None ELSE Some(<<Val(scalar)>> \o Val(rest))

blob_bytes_to_polynomial(bytes) ==
  IF Len(bytes) % SCALAR_SERIALIZED_SIZE # 0 THEN None
  ELSE IF Len(bytes) = 0 THEN OptPanic
  ELSE LET polynomial_inner == ChunksToScalars(bytes, 1)
       IN  IF ~polynomial_inner.some THEN None
           ELSE IF Polynomial_new(Val(polynomial_inner)).panic THEN OptPanic
           ELSE Some(Val(Polynomial_new(Val(polynomial_inner))))

\* The polynomials of the blobs from blob j on: the first blob that fails decides
RECURSIVE BlobsToPolynomials(_, _)
BlobsToPolynomials(blobs_bytes, j) ==
  IF j > Len(blobs_bytes) THEN Some(<<>>)
  ELSE LET poly == blob_bytes_to_polynomial(blobs_bytes[j])
       IN  IF ~poly.some THEN poly
           ELSE LET rest == BlobsToPolynomials(blobs_bytes, j + 1)
                IN  IF ~rest.some THEN rest ELSE Some(<<Val(poly)>> \o Val(rest))

blobs_to_polynomials(blobs_bytes) == BlobsToPolynomials(blobs_bytes, 1)

\* The commitments of the polynomials, in order; commit panics on a polynomial
\* that has not the length of the key
commit_multiple(ck, polynomials) ==
  IF \E j \in 1 .. Len(polynomials) : CommitKeyLagrange_commit(ck, polynomials[j]).panic
  THEN Panic
  ELSE Ok([j \in 1 .. Len(polynomials) |->
             Val(CommitKeyLagrange_commit(ck, polynomials[j]))])

\* The points of the encodings from j on: None at the first that is not valid
RECURSIVE BytesToPoints(_, _)
BytesToPoints(comms_bytes, j) ==
  IF j > Len(comms_bytes) THEN Some(<<>>)
  ELSE LET point == bytes_to_point(comms_bytes[j])
       IN  IF ~point.some THEN None
           ELSE LET rest == BytesToPoints(comms_bytes, j + 1)
                IN  IF ~rest.some THEN None ELSE Some(<<Val(point)>> \o Val(rest))

\* An outcome of a call of the byte API
ApiOutcome(res, orc, challenges) ==
  [panic |-> res.panic, some |-> res.some, val |-> res.val, orc |-> orc,
   challenges |-> challenges]

blobs_to_kzg_commitments(self, blobs_bytes) ==
  LET polynomials == blobs_to_polynomials(blobs_bytes)
  IN  IF ~polynomials.some THEN polynomials
      ELSE LET commitments == commit_multiple(self.public_parameters.commit_key,
                                              Val(polynomials))
           IN  IF commitments.panic THEN OptPanic
               ELSE Some([j \in 1 .. Len(Val(commitments)) |->
                            to_compressed(Val(commitments)[j])])

blob_to_kzg_commitment(self, blob_bytes) ==
  LET commitments == blobs_to_kzg_commitments(self, <<blob_bytes>>)
  IN  IF ~commitments.some THEN commitments ELSE Some(Val(commitments)[1])

verify_kzg_proof(self, commitment, input_point, claimed_value, proof) ==
  LET input_point_scalar == bytes_to_scalar(input_point)
      claimed_value_scalar == bytes_to_scalar(claimed_value)
      poly_commitment == bytes_to_point(commitment)
      quotient_commitment == bytes_to_point(proof)
  IN  IF ~input_point_scalar.some THEN None
      ELSE IF ~claimed_value_scalar.some THEN None
      ELSE IF ~poly_commitment.some THEN None
      ELSE IF ~quotient_commitment.some THEN None
      ELSE Some(OpeningKey_verify(self.public_parameters.opening_key,
                                  Val(input_point_scalar), Val(claimed_value_scalar),
                                  Val(poly_commitment), Val(quotient_commitment)))

\* specs blob_bytes_to_polynomial: an empty buffer is an error, not a todo!()
specs_blob_bytes_to_polynomial(bytes) ==
  IF Len(bytes) % 32 # 0 \/ Len(bytes) = 0 THEN None
  ELSE LET polynomial_inner == ChunksToScalars(bytes, 1)
       IN  IF ~polynomial_inner.some THEN None
           ELSE IF Polynomial_new(Val(polynomial_inner)).panic THEN OptPanic
           ELSE Some(Val(Polynomial_new(Val(polynomial_inner))))

compute_aggregated_kzg_proof(self, blobs_bytes, orc) ==
  LET polynomials == blobs_to_polynomials(blobs_bytes)
  IN  IF ~polynomials.some THEN {ApiOutcome(polynomials, orc, <<>>)}
      ELSE IF commit_multiple(self.public_parameters.commit_key, Val(polynomials)).panic
      THEN {ApiOutcome(OptPanic, orc, <<>>)}
      ELSE LET blob_comms == Val(commit_multiple(self.public_parameters.commit_key,
                                                 Val(polynomials)))
               blob_comms_bytes == [j \in 1 .. Len(blob_comms) |->
                                      to_compressed(blob_comms[j])]
               aggregate_kzg == AggregatedKZG_from_polys(Val(polynomials), blob_comms)
           IN  IF aggregate_kzg.panic THEN {ApiOutcome(OptPanic, orc, <<>>)}
               ELSE {IF witness.panic
                     THEN ApiOutcome(OptPanic, witness.orc, witness.challenges)
                     ELSE ApiOutcome(Some([witness |-> to_compressed(witness.val),
                                           comms |-> blob_comms_bytes]),
                                     witness.orc, witness.challenges) :
                       witness \in AggregatedKZG_create(Val(aggregate_kzg),
                                                        self.public_parameters.commit_key,
                                                        self.roots_of_unity, orc)}

verify_aggregated_kzg_proof(self, blobs_bytes, blob_comms_bytes, witness_comm_bytes, orc) ==
  LET polynomials == blobs_to_polynomials(blobs_bytes)
      poly_comms == BytesToPoints(blob_comms_bytes, 1)
      witness_comm == bytes_to_point(witness_comm_bytes)
  IN  IF ~polynomials.some THEN {ApiOutcome(polynomials, orc, <<>>)}
      ELSE IF ~poly_comms.some THEN {ApiOutcome(None, orc, <<>>)}
      ELSE IF ~witness_comm.some THEN {ApiOutcome(None, orc, <<>>)}
      ELSE LET aggregate_kzg == AggregatedKZG_from_polys(Val(polynomials), Val(poly_comms))
           IN  IF aggregate_kzg.panic THEN {ApiOutcome(OptPanic, orc, <<>>)}
               ELSE {IF res.panic THEN ApiOutcome(OptPanic, res.orc, res.challenges)
                     ELSE ApiOutcome(Some(res.val), res.orc, res.challenges) :
                       res \in AggregatedKZG_verify(Val(aggregate_kzg),
                                                    self.public_parameters.opening_key,
                                                    Val(witness_comm),
                                                    self.roots_of_unity, orc)}

----------------------------------------------------------------------------
(* Inputs *)

Polys(n) == [1 .. n -> EvalSet]

NoProof == [polynomial_commitment |-> 0, quotient_commitment |-> 0, output_point |-> 0]

KzgIdle == [phase |-> "idle", poly |-> <<>>, z |-> 0, proof |-> NoProof, zv |-> 0, ok |-> FALSE]

TrIdle ==
  [phase |-> "open", a |-> Transcript_new, b |-> Transcript_new, base |-> <<>>,
   roundA |-> <<>>, roundB |-> <<>>, splitsA |-> 0, splitsB |-> 0, resplit |-> FALSE,
   rounds |-> 0,
   last |-> "none", before |-> <<>>, k |-> 0, outA |-> <<>>, outB |-> <<>>,
   polys |-> <<>>, points |-> <<>>]

CtxIdle ==
  [phase |-> "idle", blobs |-> <<>>, comms |-> <<>>, witness |-> <<>>, flipped |-> FALSE,
   flip |-> [blob |-> 0, pos |-> 0], challenges |-> <<>>, verify_challenges |-> <<>>,
   result |-> FALSE]

\* No function has been called yet
NoCall == [op |-> "none"]

NoTamper == [kind |-> "none", j |-> 0]

AggIdle ==
  [phase |-> "idle", polys |-> <<>>, poly_comms |-> <<>>, honest_polys |-> <<>>,
   honest_comms |-> <<>>, tamper |-> NoTamper, witness |-> 0, challenges |-> <<>>,
   calls |-> <<>>, w |-> 0, ok |-> FALSE, verify_challenges |-> <<>>]

----------------------------------------------------------------------------
(* The single-opening specification: test_setup, KZGProof::create, verify *)

InitKZG ==
  /\ \E tau \in TauSet : pp = PublicParameters_from_secret(tau, Pow2(KzgLogSize))
  /\ domain = Val(RootsOfUnity_new(Pow2(KzgLogSize)))
  /\ kzg = KzgIdle
  /\ agg = AggIdle
  /\ tr = TrIdle
  /\ ctx = CtxIdle
  /\ oracle = {}
  /\ call = NoCall

KZGCreate ==
  /\ kzg.phase = "idle"
  /\ \E poly \in Polys(RootsOfUnity_size(domain)), z \in Scalars :
       LET poly_comm == Val(CommitKeyLagrange_commit(pp.commit_key, poly))
           res == KZGProof_create(pp.commit_key, poly, poly_comm, z, domain)
       IN  kzg' = IF res.panic
                  THEN [KzgIdle EXCEPT !.phase = "aborted", !.poly = poly, !.z = z]
                  ELSE [KzgIdle EXCEPT !.phase = "created", !.poly = poly, !.z = z,
                                       !.proof = Val(res)]
  /\ UNCHANGED <<call, pp, domain, agg, tr, ctx, oracle>>

KZGVerify ==
  /\ kzg.phase = "created"
  /\ \E zv \in Scalars :
       kzg' = [kzg EXCEPT !.phase = "verified", !.zv = zv,
                          !.ok = KZGProof_verify(kzg.proof, zv, pp.opening_key)]
  /\ UNCHANGED <<call, pp, domain, agg, tr, ctx, oracle>>

NextKZG == KZGCreate \/ KZGVerify

SpecKZG == InitKZG /\ [][NextKZG]_vars

----------------------------------------------------------------------------
(* The aggregated-proof specification: commit to a batch, create the witness,
   possibly alter one evaluation or one commitment, verify *)

InitAgg ==
  /\ \E tau \in TauSet : pp = PublicParameters_from_secret(tau, Pow2(AggLogSize))
  /\ domain = Val(RootsOfUnity_new(Pow2(AggLogSize)))
  /\ kzg = KzgIdle
  /\ agg = AggIdle
  /\ tr = TrIdle
  /\ ctx = CtxIdle
  /\ oracle = {}
  /\ call = NoCall

AggFromPolys ==
  /\ agg.phase = "idle"
  /\ \E m \in 1 .. MaxPolys :
       \E polys \in [1 .. m -> [1 .. RootsOfUnity_size(domain) -> AggEvalSet]] :
         LET comms == [j \in 1 .. m |-> Val(CommitKeyLagrange_commit(pp.commit_key, polys[j]))]
             self == Val(AggregatedKZG_from_polys(polys, comms))
         IN  agg' = [AggIdle EXCEPT !.phase = "built",
                                    !.polys = self.polys, !.poly_comms = self.poly_comms,
                                    !.honest_polys = polys, !.honest_comms = comms]
  /\ UNCHANGED <<call, pp, domain, kzg, tr, ctx, oracle>>

AggCreate ==
  /\ agg.phase = "built"
  /\ \E res \in AggregatedKZG_create([polys |-> agg.polys, poly_comms |-> agg.poly_comms],
                                       pp.commit_key, domain, oracle) :
           /\ oracle' = res.orc
           /\ agg' = [agg EXCEPT !.phase = IF res.panic THEN "aborted" ELSE "created",
                                 !.witness = IF res.panic THEN 0 ELSE res.val,
                                 !.challenges = res.challenges,
                                 !.calls = res.t.calls]
  /\ UNCHANGED <<call, pp, domain, kzg, tr, ctx>>

\* One evaluation of one polynomial is changed; commitments and witness are kept
AggTamperPoly ==
  /\ agg.phase = "created"
  /\ agg.tamper.kind = "none"
  /\ \E j \in 1 .. Len(agg.polys) :
       \E i \in 1 .. Len(agg.polys[j]) :
         \E v \in AggEvalSet \ {agg.polys[j][i]} :
           agg' = [agg EXCEPT !.polys[j][i] = v, !.tamper = [kind |-> "poly", j |-> j]]
  /\ UNCHANGED <<call, pp, domain, kzg, tr, ctx, oracle>>

\* One commitment is replaced by the commitment to another polynomial
AggTamperComm ==
  /\ agg.phase = "created"
  /\ agg.tamper.kind = "none"
  /\ \E j \in 1 .. Len(agg.poly_comms) :
       \E q \in [1 .. RootsOfUnity_size(domain) -> AggEvalSet] :
         LET c == Val(CommitKeyLagrange_commit(pp.commit_key, q))
         IN  /\ c # agg.poly_comms[j]
             /\ agg' = [agg EXCEPT !.poly_comms[j] = c, !.tamper = [kind |-> "comm", j |-> j]]
  /\ UNCHANGED <<call, pp, domain, kzg, tr, ctx, oracle>>

\* verify with any witness on the committed batch, with the witness of create on
\* an altered one
AggVerify ==
  /\ agg.phase = "created"
  /\ \E w \in IF agg.tamper.kind = "none" THEN G1Points ELSE {agg.witness} :
       \E res \in AggregatedKZG_verify(Val(AggregatedKZG_from_polys(agg.polys, agg.poly_comms)),
                                         pp.opening_key, w, domain, oracle) :
             /\ oracle' = res.orc
             /\ agg' = [agg EXCEPT !.phase = IF res.panic THEN "verify_aborted" ELSE "verified",
                                   !.w = w,
                                   !.ok = IF res.panic THEN FALSE ELSE res.val,
                                   !.verify_challenges = res.challenges,
                                   !.calls = res.t.calls]
  /\ UNCHANGED <<call, pp, domain, kzg, tr, ctx>>

NextAgg == AggFromPolys \/ AggCreate \/ AggTamperPoly \/ AggTamperComm \/ AggVerify

SpecAgg == InitAgg /\ [][NextAgg]_vars

----------------------------------------------------------------------------
(* The transcript specification: two transcripts constructed the same way, a
   and b, are fed bytes in chunks of their own and are asked for challenges
   when they have received the same bytes; a run may end with
   append_polys_points.  base is the buffer at the start of the round, roundA
   and roundB the bytes appended since, splitsA and splitsB the number of
   append calls that brought them; resplit tells that in the round before the
   last challenge the two numbers differed. *)

InitTranscript ==
  /\ pp = PublicParameters_from_secret(SECRET_TAU, Pow2(AggLogSize))
  /\ domain = Val(RootsOfUnity_new(Pow2(AggLogSize)))
  /\ kzg = KzgIdle
  /\ agg = AggIdle
  /\ ctx = CtxIdle
  /\ oracle = {}
  /\ call = NoCall
  /\ \E t \in {Transcript_new, Transcript_with_protocol_name(DOM_SEP_PROTOCOL)} :
       tr = [TrIdle EXCEPT !.a = t, !.b = t, !.base = t.bytes]

TrAppendA ==
  /\ tr.phase = "open"
  /\ tr.rounds < MaxRounds
  /\ \E chunk \in ChunkSet :
       /\ Len(tr.roundA) + Len(chunk) <= MaxRoundLen
       /\ tr' = [tr EXCEPT !.a = append_bytes(tr.a, chunk),
                           !.roundA = tr.roundA \o chunk,
                           !.splitsA = tr.splitsA + 1,
                           !.last = "append"]
  /\ UNCHANGED <<call, pp, domain, kzg, agg, ctx, oracle>>

TrAppendB ==
  /\ tr.phase = "open"
  /\ tr.rounds < MaxRounds
  /\ \E chunk \in ChunkSet :
       /\ Len(tr.roundB) + Len(chunk) <= MaxRoundLen
       /\ tr' = [tr EXCEPT !.b = append_bytes(tr.b, chunk),
                           !.roundB = tr.roundB \o chunk,
                           !.splitsB = tr.splitsB + 1,
                           !.last = "append"]
  /\ UNCHANGED <<call, pp, domain, kzg, agg, ctx, oracle>>

\* The state after both transcripts answered a challenge call
Challenged(op, k, ca, outA, cb) ==
  [tr EXCEPT !.a = ca.t, !.b = cb.t, !.base = ca.t.bytes,
             !.roundA = <<>>, !.roundB = <<>>, !.splitsA = 0, !.splitsB = 0,
             !.resplit = (tr.splitsA # tr.splitsB),
             !.rounds = tr.rounds + 1, !.last = op, !.before = tr.a.bytes,
             !.k = k, !.outA = outA, !.outB = cb.out]

\* Both transcripts call challenge_scalars(k)
TrChallengeScalars ==
  /\ tr.phase = "open"
  /\ tr.rounds < MaxRounds
  /\ tr.roundA = tr.roundB
  /\ \E k \in 1 .. MaxChallenges :
       \E ca \in challenge_scalars(tr.a, k, oracle) :
         \E cb \in challenge_scalars(tr.b, k, ca.orc) :
           /\ tr' = Challenged("challenge_scalars", k, ca, ca.out, cb)
           /\ oracle' = cb.orc
  /\ UNCHANGED <<call, pp, domain, kzg, agg, ctx>>

\* a calls challenge_scalar(), b calls challenge_scalars(1)
TrChallengeScalar ==
  /\ tr.phase = "open"
  /\ tr.rounds < MaxRounds
  /\ tr.roundA = tr.roundB
  /\ \E ca \in challenge_scalar(tr.a, oracle) :
       \E cb \in challenge_scalars(tr.b, 1, ca.orc) :
         /\ tr' = Challenged("challenge_scalar", 1, ca, <<ca.out>>, cb)
         /\ oracle' = cb.orc
  /\ UNCHANGED <<call, pp, domain, kzg, agg, ctx>>

\* a calls append_polys_points, which ends the run
TrAppendPolysPoints ==
  /\ tr.phase = "open"
  /\ tr.rounds < MaxRounds
  /\ tr.roundA = tr.roundB
  /\ \E m \in 0 .. MaxPolys, num_points \in 0 .. MaxPolys :
       \E polys \in [1 .. m -> TrPolys], points \in [1 .. num_points -> TrPoints] :
         LET res == append_polys_points(tr.a, polys, points)
         IN  tr' = [tr EXCEPT !.phase = IF res.panic THEN "aborted" ELSE "closed",
                              !.a = IF res.panic THEN tr.a ELSE Val(res),
                              !.last = "append_polys_points", !.before = tr.a.bytes,
                              !.polys = polys, !.points = points]
  /\ UNCHANGED <<call, pp, domain, kzg, agg, ctx, oracle>>

NextTranscript ==
  TrAppendA \/ TrAppendB \/ TrChallengeScalars \/ TrChallengeScalar \/ TrAppendPolysPoints

SpecTranscript == InitTranscript /\ [][NextTranscript]_vars

----------------------------------------------------------------------------
(* The byte-API specification: a Context of the insecure setup computes the
   aggregated proof of a list of blobs; one byte of one blob may then be
   changed; the proof is verified *)

Blobs == {PolynomialBytes(poly, 1) : poly \in CtxPolys}

Context == [public_parameters |-> pp, roots_of_unity |-> domain]

InitCtx ==
  /\ \E overflow_checks \in BOOLEAN :
       /\ pp = Context_new_insecure(overflow_checks).public_parameters
       /\ domain = Context_new_insecure(overflow_checks).roots_of_unity
  /\ kzg = KzgIdle
  /\ agg = AggIdle
  /\ tr = TrIdle
  /\ ctx = CtxIdle
  /\ oracle = {}
  /\ call = NoCall

CtxCompute ==
  /\ ctx.phase = "idle"
  /\ \E m \in 0 .. MaxPolys :
       \E blobs \in [1 .. m -> Blobs] :
         \E res \in compute_aggregated_kzg_proof(Context, blobs, oracle) :
           /\ oracle' = res.orc
           /\ ctx' = [CtxIdle EXCEPT
                        !.phase = IF res.panic THEN "compute_aborted"
                                  ELSE IF res.some THEN "computed" ELSE "compute_none",
                        !.blobs = blobs,
                        !.comms = IF res.some THEN Val(res).comms ELSE <<>>,
                        !.witness = IF res.some THEN Val(res).witness ELSE <<>>,
                        !.challenges = res.challenges]
  /\ UNCHANGED <<call, pp, domain, kzg, agg, tr>>

\* One byte of one blob is changed; commitments and witness are kept
CtxFlip ==
  /\ ctx.phase = "computed"
  /\ ~ctx.flipped
  /\ \E j \in 1 .. Len(ctx.blobs), pos \in FlipPositions :
       \E byte \in FlipValues \ {ctx.blobs[j][pos]} :
         ctx' = [ctx EXCEPT !.blobs[j][pos] = byte, !.flipped = TRUE,
                            !.flip = [blob |-> j, pos |-> pos]]
  /\ UNCHANGED <<call, pp, domain, kzg, agg, tr, oracle>>

CtxVerify ==
  /\ ctx.phase = "computed"
  /\ \E res \in verify_aggregated_kzg_proof(Context, ctx.blobs, ctx.comms, ctx.witness,
                                            oracle) :
       /\ oracle' = res.orc
       /\ ctx' = [ctx EXCEPT
                    !.phase = IF res.panic THEN "verify_aborted"
                              ELSE IF res.some THEN "verified" ELSE "verify_none",
                    !.result = IF res.some THEN Val(res) ELSE FALSE,
                    !.verify_challenges = res.challenges]
  /\ UNCHANGED <<call, pp, domain, kzg, agg, tr>>

NextCtx == CtxCompute \/ CtxFlip \/ CtxVerify

SpecCtx == InitCtx /\ [][NextCtx]_vars

----------------------------------------------------------------------------
(* The decoding specification: one call of an entry point of Context, or of
   the blob codec, on byte inputs that may not decode *)

\* A blob of FIELD_ELEMENTS_PER_BLOB scalars, cut to 31 bytes, with a chunk
\* that is not below the modulus, of two and of three scalars, and the empty one
DecodeBlobs ==
  Blobs \cup {<<>>,
              SubSeq(PolynomialBytes(<<1, 5, 0, 2>>, 1), 1, SCALAR_SERIALIZED_SIZE - 1),
              [PolynomialBytes(<<1, 5, 0, 2>>, 1) EXCEPT ![2 * SCALAR_SERIALIZED_SIZE] = 255],
              PolynomialBytes(<<1, 2>>, 1),
              PolynomialBytes(<<1, 2, 3>>, 1)}

InvalidPointBytes == [i \in 1 .. G1_SERIALISED_SIZE |-> 255]

\* The commitments to the blobs of Blobs, and bytes that are no point
DecodeComms ==
  {to_compressed(Val(CommitKeyLagrange_commit(
                       Context_new_insecure(FALSE).public_parameters.commit_key, poly))) :
     poly \in CtxPolys} \cup {InvalidPointBytes}

DecodeWitnesses == {to_compressed(point) : point \in G1Points} \cup {InvalidPointBytes}

\* Two scalars and the encoding of the modulus
DecodeScalars == {to_bytes_le(0), to_bytes_le(3), LEBytes(ScalarModulus, SCALAR_SERIALIZED_SIZE)}

BlobLists == UNION {[1 .. m -> DecodeBlobs] : m \in 0 .. MaxPolys}

CommLists == UNION {[1 .. m -> DecodeComms] : m \in 0 .. MaxPolys}

\* The result of a call without the table of digests
ApiResult(res) == [panic |-> res.panic, some |-> res.some, val |-> res.val]

InitDecode == InitCtx

BlobBytesToPolynomial ==
  /\ call.op = "none"
  /\ \E bytes \in DecodeBlobs :
       call' = [op |-> "blob_bytes_to_polynomial", crate |-> "eip4844", bytes |-> bytes,
                res |-> blob_bytes_to_polynomial(bytes)]
  /\ UNCHANGED <<pp, domain, kzg, agg, tr, ctx, oracle>>

SpecsBlobBytesToPolynomial ==
  /\ call.op = "none"
  /\ \E bytes \in DecodeBlobs :
       call' = [op |-> "blob_bytes_to_polynomial", crate |-> "specs", bytes |-> bytes,
                res |-> specs_blob_bytes_to_polynomial(bytes)]
  /\ UNCHANGED <<pp, domain, kzg, agg, tr, ctx, oracle>>

BlobToKzgCommitment ==
  /\ call.op = "none"
  /\ \E blob_bytes \in DecodeBlobs :
       call' = [op |-> "blob_to_kzg_commitment", blobs |-> <<blob_bytes>>,
                res |-> blob_to_kzg_commitment(Context, blob_bytes)]
  /\ UNCHANGED <<pp, domain, kzg, agg, tr, ctx, oracle>>

BlobsToKzgCommitments ==
  /\ call.op = "none"
  /\ \E blobs_bytes \in BlobLists :
       call' = [op |-> "blobs_to_kzg_commitments", blobs |-> blobs_bytes,
                res |-> blobs_to_kzg_commitments(Context, blobs_bytes)]
  /\ UNCHANGED <<pp, domain, kzg, agg, tr, ctx, oracle>>

ComputeAggregatedKzgProof ==
  /\ call.op = "none"
  /\ \E blobs_bytes \in BlobLists :
       \E res \in compute_aggregated_kzg_proof(Context, blobs_bytes, oracle) :
         /\ oracle' = res.orc
         /\ call' = [op |-> "compute_aggregated_kzg_proof", blobs |-> blobs_bytes,
                      challenges |-> res.challenges, res |-> ApiResult(res)]
  /\ UNCHANGED <<pp, domain, kzg, agg, tr, ctx>>

VerifyAggregatedKzgProof ==
  /\ call.op = "none"
  /\ \E blobs_bytes \in BlobLists, blob_comms_bytes \in CommLists,
        witness_comm_bytes \in DecodeWitnesses :
       \E res \in verify_aggregated_kzg_proof(Context, blobs_bytes, blob_comms_bytes,
                                               witness_comm_bytes, oracle) :
         /\ oracle' = res.orc
         /\ call' = [op |-> "verify_aggregated_kzg_proof", blobs |-> blobs_bytes,
                      comms |-> blob_comms_bytes, witness |-> witness_comm_bytes,
                      challenges |-> res.challenges, res |-> ApiResult(res)]
  /\ UNCHANGED <<pp, domain, kzg, agg, tr, ctx>>

VerifyKzgProof ==
  /\ call.op = "none"
  /\ \E commitment \in DecodeComms, input_point \in DecodeScalars,
        claimed_value \in DecodeScalars, proof \in DecodeWitnesses :
       call' = [op |-> "verify_kzg_proof", commitment |-> commitment,
                input_point |-> input_point, claimed_value |-> claimed_value,
                proof |-> proof,
                res |-> verify_kzg_proof(Context, commitment, input_point, claimed_value,
                                         proof)]
  /\ UNCHANGED <<pp, domain, kzg, agg, tr, ctx, oracle>>

NextDecode ==
  \/ BlobBytesToPolynomial
  \/ SpecsBlobBytesToPolynomial
  \/ BlobToKzgCommitment
  \/ BlobsToKzgCommitments
  \/ ComputeAggregatedKzgProof
  \/ VerifyAggregatedKzgProof
  \/ VerifyKzgProof

SpecDecode == InitDecode /\ [][NextDecode]_vars

----------------------------------------------------------------------------
(* The specification of the functions on scalars and vectors: one call of
   batch inversion, of a domain constructor, of the bit-reversal permutation or
   of the evaluation of a polynomial; a permutation may be applied to the
   result of a constructor or of a permutation *)

BatchInputs == UNION {[1 .. n -> Scalars] : n \in 0 .. MaxBatchLen}

PermInputs == UNION {[1 .. Pow2(k) -> PermValues] : k \in 0 .. MaxPermLog}

InitCalls ==
  /\ pp = PublicParameters_from_secret(SECRET_TAU, Pow2(KzgLogSize))
  /\ domain = Val(RootsOfUnity_new(Pow2(KzgLogSize)))
  /\ kzg = KzgIdle
  /\ agg = AggIdle
  /\ tr = TrIdle
  /\ ctx = CtxIdle
  /\ oracle = {}
  /\ call = NoCall

\* batch_inversion.rs, built without the feature rayon
BatchInverse ==
  /\ call.op = "none"
  /\ \E v \in BatchInputs :
       call' = [op |-> "batch_inverse", v |-> v, res |-> batch_inverse(v)]
  /\ UNCHANGED <<pp, domain, kzg, agg, tr, ctx, oracle>>

\* batch_inversion.rs, built with the feature rayon
BatchInversionRayon ==
  /\ call.op = "none"
  /\ \E v \in BatchInputs, num_cpus_available \in NumCpus :
       call' = [op |-> "batch_inverse", v |-> v,
                res |-> batch_inversion_rayon(v, num_cpus_available)]
  /\ UNCHANGED <<pp, domain, kzg, agg, tr, ctx, oracle>>

\* lib.rs batch_inverse
LibBatchInverse ==
  /\ call.op = "none"
  /\ \E v \in BatchInputs, num_cpus_available \in NumCpus :
       call' = [op |-> "lib_batch_inverse", v |-> v,
                res |-> lib_batch_inverse(v, num_cpus_available)]
  /\ UNCHANGED <<pp, domain, kzg, agg, tr, ctx, oracle>>

DomainNew ==
  /\ call.op = "none"
  /\ \E size \in 0 .. (Pow2(WordBits) - 1), overflow_checks \in BOOLEAN :
       call' = [op |-> "Domain::new", size |-> size, overflow_checks |-> overflow_checks,
                res |-> Domain_new(size, overflow_checks)]
  /\ UNCHANGED <<pp, domain, kzg, agg, tr, ctx, oracle>>

RootsOfUnityNew ==
  /\ call.op = "none"
  /\ \E size \in 0 .. (Pow2(WordBits) - 1) :
       call' = [op |-> "RootsOfUnity::new", size |-> size, res |-> RootsOfUnity_new(size)]
  /\ UNCHANGED <<pp, domain, kzg, agg, tr, ctx, oracle>>

\* permute on a domain that Domain::new returned
DomainPermute ==
  /\ call.op = "Domain::new"
  /\ ~call.res.panic
  /\ call' = [op |-> "Domain::permute", d |-> Val(call.res),
               res |-> Domain_permute(Val(call.res), call.overflow_checks)]
  /\ UNCHANGED <<pp, domain, kzg, agg, tr, ctx, oracle>>

BitReversalPermutation ==
  /\ call.op = "none"
  /\ \E vector \in PermInputs, overflow_checks \in BOOLEAN :
       call' = [op |-> "bit_reversal_permutation", crate |-> "eip4844", times |-> 1,
                overflow_checks |-> overflow_checks, vector |-> vector,
                res |-> bit_reversal_permutation(vector, overflow_checks)]
  /\ UNCHANGED <<pp, domain, kzg, agg, tr, ctx, oracle>>

SpecsBitReversalPermutation ==
  /\ call.op = "none"
  /\ \E vector \in PermInputs :
       call' = [op |-> "bit_reversal_permutation", crate |-> "specs", times |-> 1,
                overflow_checks |-> FALSE, vector |-> vector,
                res |-> specs_bit_reversal_permutation(vector)]
  /\ UNCHANGED <<pp, domain, kzg, agg, tr, ctx, oracle>>

\* The permutation is applied to the vector it returned
BitReversalPermutationAgain ==
  /\ call.op = "bit_reversal_permutation"
  /\ call.times = 1
  /\ ~call.res.panic
  /\ call' = [call EXCEPT
                 !.times = 2,
                 !.res = IF call.crate = "specs"
                         THEN specs_bit_reversal_permutation(Val(call.res))
                         ELSE bit_reversal_permutation(Val(call.res), call.overflow_checks)]
  /\ UNCHANGED <<pp, domain, kzg, agg, tr, ctx, oracle>>

\* reverse_bits of both permutation modules on the same arguments, num < order
\* (order 0 with num 0), as bit_reversal_permutation calls them
ReverseBits ==
  /\ call.op = "none"
  /\ \E order \in 0 .. (Pow2(WordBits) - 1), overflow_checks \in BOOLEAN :
       \E num \in 0 .. Max(order - 1, 0) :
         call' = [op |-> "reverse_bits", num |-> num, order |-> order,
                  overflow_checks |-> overflow_checks,
                  res |-> reverse_bits(num, order, overflow_checks),
                  specs_res |-> specs_reverse_bits(num, order)]
  /\ UNCHANGED <<pp, domain, kzg, agg, tr, ctx, oracle>>

EvaluateOutsideOfDomain ==
  /\ call.op = "none"
  /\ \E poly \in Polys(RootsOfUnity_size(domain)), z \in Scalars :
       call' = [op |-> "evaluate_outside_of_domain", poly |-> poly, z |-> z,
                res |-> evaluate_outside_of_domain(poly, z, domain)]
  /\ UNCHANGED <<pp, domain, kzg, agg, tr, ctx, oracle>>

\* The exchange of two neighbouring positions; these generate every permutation
Exchanges(n) ==
  {[i \in 1 .. n |-> IF i = j THEN j + 1 ELSE IF i = j + 1 THEN j ELSE i] : j \in 1 .. (n - 1)}

\* The evaluation on the domain and the polynomial as they are, and on both
\* reordered by the same permutation
EvaluateReordered ==
  /\ call.op = "none"
  /\ \E poly \in Polys(RootsOfUnity_size(domain)), z \in Scalars,
        perm \in Exchanges(RootsOfUnity_size(domain)) :
       call' = [op |-> "evaluate_reordered", poly |-> poly, z |-> z, perm |-> perm,
                res |-> evaluate_outside_of_domain(poly, z, domain),
                res_reordered |->
                  evaluate_outside_of_domain(
                    [i \in 1 .. Len(poly) |-> poly[perm[i]]], z,
                    [domain EXCEPT !.inner = [i \in 1 .. Len(poly) |-> domain.inner[perm[i]]]])]
  /\ UNCHANGED <<pp, domain, kzg, agg, tr, ctx, oracle>>

\* quotient_poly::compute for the statement p(z) = y: y is the evaluation of the
\* polynomial outside the domain, and its entry at z inside the domain
ComputeQuotient ==
  /\ call.op = "none"
  /\ \E poly \in Polys(RootsOfUnity_size(domain)), z \in Scalars :
       LET y == IF Domain_find(domain, z) # 0 THEN poly[Domain_find(domain, z)]
                ELSE Val(evaluate_outside_of_domain(poly, z, domain))
       IN  call' = [op |-> "quotient_poly::compute", poly |-> poly, z |-> z, y |-> y,
                    res |-> compute_quotient(poly, z, y, domain)]
  /\ UNCHANGED <<pp, domain, kzg, agg, tr, ctx, oracle>>

\* tests::transform_srs: the points tau^i G
monomial_srs(secret, degree) == [i \in 1 .. degree |-> G1Mul(G1Generator, FrPow(secret, i - 1))]

\* tests::eval_coeff_poly
eval_coeff_poly(poly, input_point) ==
  SumOver([i \in 1 .. Len(poly) |-> FrMul(FrPow(input_point, i - 1), poly[i])], 1, Len(poly))

\* tests::transform_srs for a domain of 2^k roots, a secret and coefficients; the
\* number of points may differ from the size of the domain
TransformSrs ==
  /\ call.op = "none"
  /\ \E k \in 0 .. KzgLogSize, degree \in 1 .. (Pow2(KzgLogSize) + 1), secret \in Scalars :
       \E f_x_coeffs \in IF degree = Pow2(k) THEN Polys(degree)
                          ELSE {[i \in 1 .. degree |-> 0]} :
         LET d == Val(Domain_new(Pow2(k), FALSE))
             srs == monomial_srs(secret, degree)
         IN  call' = [op |-> "into_lagrange", d |-> d, secret |-> secret,
                      monomial_srs |-> srs, f_x_coeffs |-> f_x_coeffs,
                      f_x_evaluations |->
                        [i \in 1 .. Len(d.roots) |-> eval_coeff_poly(f_x_coeffs, d.roots[i])],
                      res |-> into_lagrange([inner |-> srs], d)]
  /\ UNCHANGED <<pp, domain, kzg, agg, tr, ctx, oracle>>

\* tests::test_serialize_deserialize on every point of G1
SerializeDeserializeG1 ==
  /\ call.op = "none"
  /\ \E p \in ArkG1Points :
       call' = [op |-> "serialize_g1", p |-> p, enc |-> serialize_g1(p),
                res |-> deserialize_g1(serialize_g1(p))]
  /\ UNCHANGED <<pp, domain, kzg, agg, tr, ctx, oracle>>

\* tests::test_serialize_deserialize on every point of G2
SerializeDeserializeG2 ==
  /\ call.op = "none"
  /\ \E p \in ArkG2Points :
       call' = [op |-> "serialize_g2", p |-> p, enc |-> serialize_g2(p),
                res |-> deserialize_g2(serialize_g2(p))]
  /\ UNCHANGED <<pp, domain, kzg, agg, tr, ctx, oracle>>

ContextNewInsecure ==
  /\ call.op = "none"
  /\ \E overflow_checks \in BOOLEAN :
       call' = [op |-> "Context::new_insecure", overflow_checks |-> overflow_checks,
                res |-> Context_new_insecure(overflow_checks)]
  /\ UNCHANGED <<pp, domain, kzg, agg, tr, ctx, oracle>>

NextCalls ==
  \/ BatchInverse
  \/ ContextNewInsecure
  \/ BatchInversionRayon
  \/ LibBatchInverse
  \/ DomainNew
  \/ RootsOfUnityNew
  \/ DomainPermute
  \/ BitReversalPermutation
  \/ SpecsBitReversalPermutation
  \/ BitReversalPermutationAgain
  \/ EvaluateOutsideOfDomain
  \/ EvaluateReordered
  \/ ComputeQuotient
  \/ TransformSrs
  \/ SerializeDeserializeG1
  \/ SerializeDeserializeG2
  \/ ReverseBits

SpecCalls == InitCalls /\ [][NextCalls]_vars

----------------------------------------------------------------------------
(* The batch specification: an AggregatedKZG is built by empty, from_polys and
   add and then used once, by compute_aggregate_poly_and_comm, create or
   verify; or one of compute_powers, g1_lincomb and evaluate_outside_of_domain
   is called on inputs whose shapes may not match *)

\* Polynomials of the domain size, and one of twice that size
BatchPolys ==
  LET n == Pow2(AggLogSize)
  IN  {[i \in 1 .. n |-> v] : v \in AggEvalSet}
        \cup {[i \in 1 .. n |-> IF i = 1 THEN 1 ELSE 0], [i \in 1 .. (2 * n) |-> 1]}

\* A polynomial together with its commitment, or with another point
BatchPairs ==
  {<<poly, comm>> : poly \in BatchPolys, comm \in G1Points} \cap
  {pair \in BatchPolys \X G1Points :
     \/ pair[2] = 0
     \/ /\ Len(pair[1]) = Len(pp.commit_key.inner)
        /\ pair[2] = Val(CommitKeyLagrange_commit(pp.commit_key, pair[1]))}

BatchIdle == [phase |-> "idle", polys |-> <<>>, poly_comms |-> <<>>, supplied |-> <<>>]

\* The result of a call without the transcript and the table of digests
BatchResult(res) == [f \in (DOMAIN res) \ {"t", "orc"} |-> res[f]]

InitBatch ==
  /\ pp = PublicParameters_from_secret(SECRET_TAU, Pow2(AggLogSize))
  /\ domain = Val(RootsOfUnity_new(Pow2(AggLogSize)))
  /\ kzg = KzgIdle
  /\ agg = BatchIdle
  /\ tr = TrIdle
  /\ ctx = CtxIdle
  /\ oracle = {}
  /\ call = NoCall

BatchEmpty ==
  /\ agg.phase = "idle"
  /\ call.op = "none"
  /\ agg' = [agg EXCEPT !.phase = "built",
                        !.polys = AggregatedKZG_empty.polys,
                        !.poly_comms = AggregatedKZG_empty.poly_comms]
  /\ call' = [op |-> "empty"]
  /\ UNCHANGED <<pp, domain, kzg, tr, ctx, oracle>>

\* from_polys on a list of pairs, with the last commitment left out or one more
\* commitment given
BatchFromPolys ==
  /\ agg.phase = "idle"
  /\ call.op = "none"
  /\ \E m \in 0 .. MaxPolys :
       \E pairs \in [1 .. m -> BatchPairs], k \in {m - 1, m, m + 1} \cap (0 .. (m + 1)) :
         LET polys == [j \in 1 .. m |-> pairs[j][1]]
             comms == [j \in 1 .. k |-> IF j <= m THEN pairs[j][2] ELSE 0]
             res == AggregatedKZG_from_polys(polys, comms)
         IN  /\ call' = [op |-> "from_polys", polys |-> polys, comms |-> comms,
                         panic |-> res.panic]
             /\ agg' = IF res.panic THEN [agg EXCEPT !.phase = "aborted"]
                       ELSE [agg EXCEPT !.phase = "built",
                                        !.polys = Val(res).polys,
                                        !.poly_comms = Val(res).poly_comms,
                                        !.supplied = pairs]
  /\ UNCHANGED <<pp, domain, kzg, tr, ctx, oracle>>

BatchAdd ==
  /\ agg.phase = "built"
  /\ Len(agg.polys) < MaxPolys
  /\ \E pair \in BatchPairs :
       LET self == AggregatedKZG_add([polys |-> agg.polys, poly_comms |-> agg.poly_comms],
                                     pair[1], pair[2])
       IN  /\ agg' = [agg EXCEPT !.polys = self.polys, !.poly_comms = self.poly_comms,
                                 !.supplied = Append(@, pair)]
           /\ call' = [op |-> "add"]
  /\ UNCHANGED <<pp, domain, kzg, tr, ctx, oracle>>

\* compute_aggregate_poly_and_comm on the batch, or on the batch without its
\* last commitment
BatchAggregate ==
  /\ agg.phase = "built"
  /\ \E k \in {Len(agg.poly_comms) - 1, Len(agg.poly_comms)} \cap (0 .. MaxPolys) :
       \E res \in compute_aggregate_poly_and_comm(Transcript_new, agg.polys,
                                                   SubSeq(agg.poly_comms, 1, k), oracle) :
         /\ call' = [op |-> "compute_aggregate_poly_and_comm", polys |-> agg.polys,
                     comms |-> SubSeq(agg.poly_comms, 1, k), res |-> BatchResult(res)]
         /\ oracle' = res.orc
  /\ agg' = [agg EXCEPT !.phase = "used"]
  /\ UNCHANGED <<pp, domain, kzg, tr, ctx>>

BatchCreate ==
  /\ agg.phase = "built"
  /\ \E res \in AggregatedKZG_create([polys |-> agg.polys, poly_comms |-> agg.poly_comms],
                                       pp.commit_key, domain, oracle) :
       /\ call' = [op |-> "create", polys |-> agg.polys, comms |-> agg.poly_comms,
                   res |-> BatchResult(res)]
       /\ oracle' = res.orc
  /\ agg' = [agg EXCEPT !.phase = "used"]
  /\ UNCHANGED <<pp, domain, kzg, tr, ctx>>

BatchVerify ==
  /\ agg.phase = "built"
  /\ \E w \in TrPoints :
       \E res \in AggregatedKZG_verify([polys |-> agg.polys, poly_comms |-> agg.poly_comms],
                                         pp.opening_key, w, domain, oracle) :
         /\ call' = [op |-> "verify", polys |-> agg.polys, comms |-> agg.poly_comms,
                     res |-> BatchResult(res)]
         /\ oracle' = res.orc
  /\ agg' = [agg EXCEPT !.phase = "used"]
  /\ UNCHANGED <<pp, domain, kzg, tr, ctx>>

\* tests::powers_smoke
BatchPowers ==
  /\ agg.phase = "idle"
  /\ call.op = "none"
  /\ \E x \in Scalars, n \in 0 .. (MaxPolys + 1) :
       call' = [op |-> "compute_powers", x |-> x, n |-> n, res |-> compute_powers(x, n)]
  /\ UNCHANGED <<pp, domain, kzg, agg, tr, ctx, oracle>>

BatchLincomb ==
  /\ agg.phase = "idle"
  /\ call.op = "none"
  /\ \E a \in 0 .. MaxPolys, b \in 0 .. MaxPolys :
       \E points \in [1 .. a -> TrPoints], scalars \in [1 .. b -> AggEvalSet] :
         call' = [op |-> "g1_lincomb", points |-> points, scalars |-> scalars,
                  res |-> g1_lincomb(points, scalars)]
  /\ UNCHANGED <<pp, domain, kzg, agg, tr, ctx, oracle>>

BatchEvaluate ==
  /\ agg.phase = "idle"
  /\ call.op = "none"
  /\ \E poly \in BatchPolys \cup {<<1>>}, z \in Scalars :
       call' = [op |-> "evaluate_outside_of_domain", poly |-> poly, z |-> z,
                res |-> evaluate_outside_of_domain(poly, z, domain)]
  /\ UNCHANGED <<pp, domain, kzg, agg, tr, ctx, oracle>>

NextBatch ==
  \/ BatchEmpty
  \/ BatchFromPolys
  \/ BatchAdd
  \/ BatchAggregate
  \/ BatchCreate
  \/ BatchVerify
  \/ BatchPowers
  \/ BatchLincomb
  \/ BatchEvaluate

SpecBatch == InitBatch /\ [][NextBatch]_vars

----------------------------------------------------------------------------
(* The chunked batch inversion, worker by worker: par_chunks_mut hands every
   chunk to a worker that runs serial_batch_inversion on it; the workers run
   in any order, the first pass (reads) and the second pass (writes) of one
   worker interleaved with the passes of the others *)

ChunkedInputs == UNION {[1 .. n -> ChunkedScalars] : n \in 0 .. MaxChunkedLen}

BatchInversionFiles == {"batch_inversion.rs", "lib.rs"}

\* batch_inversion up to the call of for_each
ChunkedStart ==
  /\ call.op = "none"
  /\ \E v \in ChunkedInputs, num_cpus_available \in NumCpus, file \in BatchInversionFiles :
       LET min_elements_per_thread == 1
           num_elems == Len(v)
           num_elem_per_thread == Max(num_elems \div num_cpus_available, min_elements_per_thread)
           chunks == par_chunks_mut(num_elems, num_elem_per_thread)
       IN  call' = [op |-> "batch_inversion", file |-> file, input |-> v, v |-> v,
                    num_cpus_available |-> num_cpus_available,
                    num_elem_per_thread |-> num_elem_per_thread,
                    chunks |-> chunks,
                    pc |-> [c \in DOMAIN chunks |-> "start"],
                    prod |-> [c \in DOMAIN chunks |-> <<>>],
                    tmp |-> [c \in DOMAIN chunks |-> 1],
                    reads |-> [c \in DOMAIN chunks |-> {}],
                    writes |-> [c \in DOMAIN chunks |-> {}]]
  /\ UNCHANGED <<pp, domain, kzg, agg, tr, ctx, oracle>>

\* serial_batch_inversion on chunk c: the first pass, the assert of
\* batch_inversion.rs and the inversion of tmp
ChunkFirstPass ==
  /\ call.op = "batch_inversion"
  /\ \E c \in DOMAIN call.chunks :
       /\ call.pc[c] = "start"
       /\ LET chunk == SliceAt(call.v, call.chunks[c])
              non_zero == FilterNonZero(chunk, 1)
              prod == PrefixProducts(non_zero, Len(non_zero))
              tmp == IF Len(prod) = 0 THEN 1 ELSE prod[Len(prod)]
          IN  call' = [call EXCEPT
                         !.pc[c] = IF call.file = "batch_inversion.rs" /\ Len(prod) # Len(chunk)
                                   THEN "panicked" ELSE "inverted",
                         !.prod[c] = prod,
                         !.tmp[c] = Val(FrInvert(tmp)),
                         !.reads[c] = @ \cup call.chunks[c]]
  /\ UNCHANGED <<pp, domain, kzg, agg, tr, ctx, oracle>>

\* serial_batch_inversion on chunk c: the second pass
ChunkSecondPass ==
  /\ call.op = "batch_inversion"
  /\ \E c \in DOMAIN call.chunks :
       /\ call.pc[c] = "inverted"
       /\ LET range == call.chunks[c]
              lo == CHOOSE i \in range : \A j \in range : i <= j
              chunk == SliceAt(call.v, range)
              out == IF call.file = "lib.rs"
                     THEN lib_BackwardPass(chunk, call.prod[c], Len(chunk),
                                           Len(call.prod[c]), call.tmp[c])
                     ELSE BackwardPass(chunk, call.prod[c], Len(chunk), call.tmp[c])
          IN  call' = [call EXCEPT
                         !.pc[c] = "done",
                         !.v = [i \in 1 .. Len(call.v) |->
                                  IF i \in range THEN out[i - lo + 1] ELSE call.v[i]],
                         !.reads[c] = @ \cup range,
                         !.writes[c] = @ \cup {i \in range : call.v[i] # 0}]
  /\ UNCHANGED <<pp, domain, kzg, agg, tr, ctx, oracle>>

NextChunks ==
  \/ ChunkedStart
  \/ ChunkFirstPass
  \/ ChunkSecondPass

SpecChunks == InitCalls /\ [][NextChunks]_vars

----------------------------------------------------------------------------
(* Single opening: claims C4 and C5 *)

\* The value at z of the polynomial of degree < n interpolating poly on the roots
InterpolantAt(poly, z) ==
  SumOver([i \in 1 .. Len(poly) |-> FrMul(poly[i], LagrangeCoefficient(domain.inner, i, z))],
          1, Len(poly))

\* C4 (as claimed): for every polynomial and every input point z, inside or
\* outside the domain, KZGProof::create returns a proof with y = p(z) that
\* verifies at z; it never aborts.
C4_SingleOpeningComplete ==
  /\ kzg.phase # "aborted"
  /\ kzg.phase \in {"created", "verified"} =>
       kzg.proof.output_point = InterpolantAt(kzg.poly, kzg.z)
  /\ (kzg.phase = "verified" /\ kzg.zv = kzg.z) => kzg.ok

\* What the code does: the claim holds for every input point outside the domain.
KzgCompleteOutsideDomain ==
  /\ kzg.phase = "aborted" <=>
       (kzg.phase # "idle" /\ RootsOfUnity_contains(domain, kzg.z))
  /\ kzg.phase \in {"created", "verified"} =>
       kzg.proof.output_point = InterpolantAt(kzg.poly, kzg.z)
  /\ (kzg.phase = "verified" /\ kzg.zv = kzg.z) => kzg.ok

\* C5 (as claimed): a proof created with (poly, z) is rejected at every input
\* point z' # z, for every polynomial, constant ones included.
C5_OtherPointRejected ==
  (kzg.phase = "verified" /\ kzg.zv # kzg.z) => ~kzg.ok

\* C5 (amended): a proof created with (poly, z) is rejected at z' # z exactly
\* when its quotient commitment is not the identity of G1; the proof of a
\* constant polynomial has the identity as quotient commitment and verifies
\* at every point.
C5_OtherPointRejectedUnlessIdentity ==
  /\ (kzg.phase = "verified" /\ kzg.zv # kzg.z) =>
       (kzg.ok <=> kzg.proof.quotient_commitment = 0)
  /\ (kzg.phase \in {"created", "verified"}
        /\ \A i \in 1 .. Len(kzg.poly) : kzg.poly[i] = kzg.poly[1]) =>
       kzg.proof.quotient_commitment = 0

C5_Witness ==
  /\ kzg.phase = "verified"
  /\ kzg.zv # kzg.z
  /\ kzg.proof.quotient_commitment # 0
  /\ ~kzg.ok

C5_WitnessConstant ==
  /\ kzg.phase = "verified"
  /\ kzg.zv # kzg.z
  /\ \A i \in 1 .. Len(kzg.poly) : kzg.poly[i] = kzg.poly[1]
  /\ kzg.ok

----------------------------------------------------------------------------
(* The aggregated proof: claims C1, C2, C3 and C6 *)

Honest == agg.tamper.kind = "none"

\* C1 (as claimed): for every batch of honestly committed polynomials and every
\* challenge the transcript can produce, create does not abort and verify
\* returns true on the witness create returned.
C1_AggregateComplete ==
  /\ agg.phase # "aborted"
  /\ ~(agg.phase = "verify_aborted" /\ Honest)
  /\ (agg.phase = "verified" /\ Honest /\ agg.w = agg.witness) => agg.ok

\* What the code does: create aborts exactly when the evaluation challenge x is
\* a root of the domain; otherwise verify accepts the witness of create.
AggCompleteOutsideDomain ==
  /\ agg.phase \in {"created", "aborted", "verified", "verify_aborted"} =>
       /\ Len(agg.challenges) = 2
       /\ (agg.phase = "aborted" <=> RootsOfUnity_contains(domain, agg.challenges[2]))
  /\ ~(agg.phase = "verify_aborted" /\ Honest)
  /\ (agg.phase = "verified" /\ Honest) =>
       /\ agg.verify_challenges = agg.challenges
       /\ agg.w = agg.witness => agg.ok

C1_AbortWitness ==
  /\ agg.phase = "aborted"
  /\ RootsOfUnity_contains(domain, agg.challenges[2])

\* The verification equation of the batch, by linearity: the combination with
\* the powers of r of the openings C_j - p_j(x)*G1 pairs with G2 as the witness
\* pairs with tau*G2 - x*G2
BatchEquation(polys, comms, r, x, w) ==
  LET opening == [j \in 1 .. Len(polys) |->
                    G1Mul(G1Sub(comms[j], G1Mul(G1Generator, InterpolantAt(polys[j], x))),
                          FrPow(r, j - 1))]
  IN  FrMul(SumOver(opening, 1, Len(polys)), pp.opening_key.g2_gen)
        = FrMul(w, FrSub(pp.opening_key.tau_g2_gen, FrMul(pp.opening_key.g2_gen, x)))

C2_WitnessAccepted ==
  /\ agg.phase = "verified"
  /\ ~Honest
  /\ agg.ok

\* C3 (as claimed): on an honestly committed batch verify returns false for
\* every witness other than the one create returned.
C3_OtherWitnessRejected ==
  (agg.phase = "verified" /\ Honest /\ agg.w # agg.witness) => ~agg.ok

\* C3 (amended): on an honestly committed batch verify returns false for every
\* witness other than the one create returned, unless the evaluation challenge
\* x is the secret of the setup (x*G2 = tau*G2); then it returns true for every
\* witness.
C3_OtherWitnessRejectedUnlessTau ==
  (agg.phase = "verified" /\ Honest) =>
    /\ agg.w # agg.witness =>
         (agg.ok <=> FrMul(pp.opening_key.g2_gen, agg.verify_challenges[2])
                       = pp.opening_key.tau_g2_gen)
    /\ FrMul(pp.opening_key.g2_gen, agg.verify_challenges[2]) = pp.opening_key.tau_g2_gen =>
         agg.ok

C3_Witness ==
  /\ agg.phase = "verified"
  /\ Honest
  /\ agg.w # agg.witness
  /\ ~agg.ok

C3_WitnessTau ==
  /\ agg.phase = "verified"
  /\ Honest
  /\ agg.w # agg.witness
  /\ agg.ok

\* C6 (as claimed): in create and in verify the transcript starts with the
\* 16-byte protocol label in its buffer, receives one append_polys_points of
\* the batch, and r and x are the two outputs of one challenge_scalars(2);
\* nothing else is appended and no other challenge is drawn.
C6_TranscriptOrder ==
  agg.phase \in {"created", "aborted", "verified", "verify_aborted"} =>
    agg.calls = <<Call("with_protocol_name", Len(DOM_SEP_PROTOCOL)),
                  Call("append_polys_points", Len(agg.polys)),
                  Call("challenge_scalars", 2)>>

\* What the code does: an empty transcript, every polynomial and then every
\* commitment appended one by one, challenge_scalar for r, the aggregated
\* polynomial and its commitment appended, challenge_scalar for x.
AggTranscriptCalls ==
  agg.phase \in {"created", "aborted", "verified", "verify_aborted"} =>
    LET m == Len(agg.polys)
        n == RootsOfUnity_size(domain)
    IN  agg.calls = <<Call("new", 0)>>
                      \o [j \in 1 .. m |-> Call("append_polynomial", n)]
                      \o [j \in 1 .. m |-> Call("append_g1_point", 1)]
                      \o <<Call("challenge_scalar", 1), Call("append_polynomial", n),
                           Call("append_g1_point", 1), Call("challenge_scalar", 1)>>

----------------------------------------------------------------------------
(* The transcript: claims C7, C8 and C9 *)

\* C7: challenge_scalars(k) hashes the buffer into state, returns k scalars, the
\* i-th being SHA256(state || byte(i)) read as a little-endian integer and
\* reduced modulo the order of the scalar field, and leaves exactly state, 32
\* bytes, as the buffer, so that what follows chains from state;
\* challenge_scalar() returns challenge_scalars(1)[0] and leaves the same buffer.
C7_ChallengeScalars ==
  /\ tr.phase = "open" => tr.a.bytes = tr.base \o tr.roundA
  /\ tr.last \in {"challenge_scalars", "challenge_scalar"} =>
       /\ Hashed(oracle, tr.before)
       /\ tr.a.bytes = Sha256(oracle, tr.before)
       /\ tr.base = tr.a.bytes
       /\ Len(tr.a.bytes) = 32
       /\ Len(tr.outA) = tr.k
       /\ \A i \in 1 .. tr.k :
            /\ Hashed(oracle, Append(tr.a.bytes, i - 1))
            /\ \E v \in DigestValues :
                 /\ Sha256(oracle, Append(tr.a.bytes, i - 1)) = LEBytes(v, 32)
                 /\ tr.outA[i] = v % ScalarModulus
       /\ tr.last = "challenge_scalar" =>
            /\ tr.k = 1
            /\ tr.outA = tr.outB
            /\ tr.a.bytes = tr.b.bytes

C7_Witness ==
  /\ tr.last = "challenge_scalars"
  /\ tr.k = 2
  /\ tr.rounds = 2
  /\ Len(tr.before) > 32
  /\ tr.outA[1] # tr.outA[2]
  /\ Sha256(oracle, Append(tr.a.bytes, 1)) = LEBytes(20, 32)

C7_WitnessScalar ==
  /\ tr.last = "challenge_scalar"
  /\ tr.rounds = 2
  /\ Len(tr.before) > 32

\* C8: two transcripts constructed the same way that received, between
\* consecutive challenge calls, appends with equal concatenated bytes, however
\* split, hold equal buffers and return equal challenges at every challenge
\* call.
C8_TranscriptDeterminism ==
  /\ tr.outA = tr.outB
  /\ (tr.phase = "open" /\ tr.roundA = tr.roundB) => tr.a.bytes = tr.b.bytes

C8_Witness ==
  /\ tr.last = "challenge_scalars"
  /\ tr.rounds = 2
  /\ tr.resplit
  /\ Len(tr.outA) = 2
  /\ tr.outA = tr.outB

Zeros(n) == [i \in 1 .. n |-> 0]

RECURSIVE Concat(_)
Concat(seqs) == IF seqs = <<>> THEN <<>> ELSE Head(seqs) \o Concat(Tail(seqs))

\* C9: append_polys_points aborts when the numbers of polynomials and points
\* differ and when both are zero; otherwise it extends the buffer, earlier
\* bytes unchanged, by the size of the first polynomial and the number of
\* polynomials, 8 bytes little-endian each, then every polynomial in order,
\* 32 bytes little-endian per evaluation, then every point in order, 48 bytes
\* compressed each.
C9_AppendPolysPoints ==
  tr.last = "append_polys_points" =>
    /\ tr.phase = "aborted" <=>
         (Len(tr.polys) # Len(tr.points) \/ (Len(tr.polys) = 0 /\ Len(tr.points) = 0))
    /\ tr.phase = "closed" =>
         /\ \A j \in 1 .. Len(tr.points) : Len(to_compressed(tr.points[j])) = 48
         /\ tr.a.bytes =
              tr.before
                \o (<<Len(tr.polys[1])>> \o Zeros(7))
                \o (<<Len(tr.polys)>> \o Zeros(7))
                \o Concat([j \in 1 .. Len(tr.polys) |->
                             Concat([i \in 1 .. Len(tr.polys[j]) |->
                                       <<tr.polys[j][i]>> \o Zeros(31)])])
                \o Concat([j \in 1 .. Len(tr.points) |-> to_compressed(tr.points[j])])

C9_Witness ==
  /\ tr.last = "append_polys_points"
  /\ tr.phase = "closed"
  /\ Len(tr.polys) = 2
  /\ Len(tr.polys[1]) = 1
  /\ Len(tr.polys[2]) = 2
  /\ tr.points[1] # tr.points[2]
  /\ Len(tr.before) > 32

C9_WitnessAbort ==
  /\ tr.last = "append_polys_points"
  /\ tr.phase = "aborted"

----------------------------------------------------------------------------
(* The byte API: claim C10 *)

\* C10 (as claimed): with the Context of the insecure setup, for any list of
\* valid blobs, compute_aggregated_kzg_proof returns a witness and commitments
\* with which verify_aggregated_kzg_proof returns true, and after one byte of
\* one blob has been changed it returns false.
C10_ByteApiRoundTrip ==
  /\ ctx.phase \notin {"compute_aborted", "compute_none"}
  /\ (~ctx.flipped /\ ctx.phase \in {"verified", "verify_none", "verify_aborted"}) =>
       (ctx.phase = "verified" /\ ctx.result)
  /\ (ctx.flipped /\ ctx.phase \in {"verified", "verify_none", "verify_aborted"}) =>
       (ctx.phase = "verified" /\ ~ctx.result)

\* The changed byte leaves its chunk the encoding of a scalar
FlipCanonical ==
  /\ (ctx.flip.pos - 1) % SCALAR_SERIALIZED_SIZE = 0
  /\ ctx.blobs[ctx.flip.blob][ctx.flip.pos] < ScalarModulus

\* What the code does: compute aborts on the empty list and when the
\* evaluation challenge is a root of the domain, and otherwise returns a proof
\* that verifies; after the change of a byte verify returns None when the
\* chunk is no longer the encoding of a scalar, and aborts when the evaluation
\* challenge of the changed blobs is a root of the domain.
CtxRoundTripFacts ==
  /\ ctx.phase # "compute_none"
  /\ ctx.phase = "compute_aborted" <=>
       (ctx.phase # "idle"
          /\ (Len(ctx.blobs) = 0
                \/ RootsOfUnity_contains(domain, ctx.challenges[Len(ctx.challenges)])))
  /\ (~ctx.flipped /\ ctx.phase \in {"verified", "verify_none", "verify_aborted"}) =>
       (ctx.phase = "verified" /\ ctx.result)
  /\ (ctx.flipped /\ ctx.phase \in {"verified", "verify_none", "verify_aborted"}) =>
       /\ ctx.phase = "verify_none" <=> ~FlipCanonical
       /\ ctx.phase = "verify_aborted" <=>
            (FlipCanonical /\ RootsOfUnity_contains(domain, ctx.verify_challenges[2]))

C10_WitnessEmptyList ==
  /\ ctx.phase = "compute_aborted"
  /\ Len(ctx.blobs) = 0

C10_WitnessNone ==
  /\ ctx.phase = "verify_none"
  /\ ctx.flipped

C10_WitnessRoundTrip ==
  /\ ctx.phase = "verified"
  /\ ~ctx.flipped
  /\ Len(ctx.blobs) = 2
  /\ ctx.result

C10_WitnessFlipRejected ==
  /\ ctx.phase = "verified"
  /\ ctx.flipped
  /\ ~ctx.result

----------------------------------------------------------------------------
(* Batch inversion: claims C14 and C15 *)

NonZeroSlice(v) == \A i \in 1 .. Len(v) : v[i] # 0

\* C14: for every slice v of non-zero scalars, the empty slice and the slices
\* of one element included, batch_inverse (batch_inversion.rs, with and without
\* rayon, and lib.rs) returns normally, the slice keeps its length and every
\* element is the inverse of its original value.
C14_BatchInverseCorrect ==
  (call.op \in {"batch_inverse", "lib_batch_inverse"} /\ NonZeroSlice(call.v)) =>
    /\ ~call.res.panic
    /\ Len(Val(call.res)) = Len(call.v)
    /\ \A i \in 1 .. Len(call.v) : FrMul(Val(call.res)[i], call.v[i]) = 1

C14_Witness ==
  /\ call.op = "batch_inverse"
  /\ Len(call.v) = MaxBatchLen
  /\ NonZeroSlice(call.v)
  /\ call.v[1] # call.v[2]
  /\ ~call.res.panic
  /\ Val(call.res) # call.v

C14_WitnessEmpty ==
  /\ call.op = "lib_batch_inverse"
  /\ call.v = <<>>
  /\ ~call.res.panic

\* C15 (as claimed): no call of batch_inverse / batch_inversion on a slice with
\* a zero entry completes normally.
C15_ZeroFails ==
  (call.op \in {"batch_inverse", "lib_batch_inverse"} /\ ~NonZeroSlice(call.v)) =>
    call.res.panic

\* What the code does: batch_inversion.rs fails on a zero entry; lib.rs never
\* fails, leaves every zero in place and inverts the other entries.
BatchInverseZeroFacts ==
  /\ call.op = "batch_inverse" => (call.res.panic <=> ~NonZeroSlice(call.v))
  /\ call.op = "lib_batch_inverse" =>
       /\ ~call.res.panic
       /\ Len(Val(call.res)) = Len(call.v)
       /\ \A i \in 1 .. Len(call.v) :
            IF call.v[i] = 0 THEN Val(call.res)[i] = 0
            ELSE FrMul(Val(call.res)[i], call.v[i]) = 1

C15_WitnessFails ==
  /\ call.op = "batch_inverse"
  /\ ~NonZeroSlice(call.v)
  /\ call.res.panic

C15_WitnessSkipped ==
  /\ call.op = "lib_batch_inverse"
  /\ ~NonZeroSlice(call.v)
  /\ ~call.res.panic

----------------------------------------------------------------------------
(* The domain: claims C16 and C17 *)

\* C16: a Domain built by Domain::new has n = roots.len() a power of two,
\* roots[0] = 1, roots[i] * generator = roots[(i+1) mod n], generator^n = 1,
\* generator * generator_inv = 1, domain_size * domain_size_inv = 1, and the
\* generator has order exactly n, so that the roots are pairwise distinct.
C16_DomainInvariants ==
  (call.op = "Domain::new" /\ ~call.res.panic) =>
    LET d == Val(call.res)
        n == Len(d.roots)
    IN  /\ \E k \in 0 .. WordBits : n = Pow2(k)
        /\ d.roots[1] = 1
        /\ \A i \in 1 .. n : FrMul(d.roots[i], d.generator) = d.roots[(i % n) + 1]
        /\ FrPow(d.generator, n) = 1
        /\ FrMul(d.generator, d.generator_inv) = 1
        /\ FrMul(d.domain_size, d.domain_size_inv) = 1
        /\ \A e \in 1 .. (n - 1) : FrPow(d.generator, e) # 1
        /\ \A i, j \in 1 .. n : i # j => d.roots[i] # d.roots[j]

C16_Witness ==
  /\ call.op = "Domain::new"
  /\ ~call.res.panic
  /\ Len(Val(call.res).roots) = Pow2(two_adicity)
  /\ call.size < Pow2(two_adicity)

\* The smallest power of two not below s, and its logarithm
NextPow2Log(s) == CHOOSE k \in 0 .. WordBits : s <= Pow2(k) /\ \A j \in 0 .. (k - 1) : s > Pow2(j)

\* What C17 says of a constructor called with the requested size s
ConstructionAsClaimed(s, res) ==
  IF NextPow2Log(s) > two_adicity THEN res.panic
  ELSE /\ ~res.panic
       /\ LET roots == IF "roots" \in DOMAIN Val(res) THEN Val(res).roots ELSE Val(res).inner
          IN  /\ Len(roots) = Pow2(NextPow2Log(s))
              /\ \A i \in 1 .. Len(roots) :
                   roots[i] = FrPow(FrPow(largest_root_of_unity,
                                          Pow2(two_adicity - NextPow2Log(s))), i - 1)

\* C17 (as claimed): a domain constructed with requested size s has size
\* n = next_pow2(s) and generator g^(2^(two_adicity - log2 n)), and the
\* construction fails when log2 n exceeds the two-adicity.
C17_DomainConstruction ==
  call.op \in {"Domain::new", "RootsOfUnity::new"} => ConstructionAsClaimed(call.size, call.res)

\* What the code does: Domain::new is as claimed; RootsOfUnity::new is as
\* claimed for a power of two and fails for every other size.
DomainConstructionFacts ==
  /\ call.op = "Domain::new" =>
       /\ ConstructionAsClaimed(call.size, call.res)
       /\ ~call.res.panic =>
            Val(call.res).generator =
              FrPow(largest_root_of_unity, Pow2(two_adicity - NextPow2Log(call.size)))
  /\ call.op = "RootsOfUnity::new" =>
       IF call.size = Pow2(NextPow2Log(call.size)) /\ call.size > 0
       THEN ConstructionAsClaimed(call.size, call.res)
       ELSE call.res.panic

C17_WitnessPadded ==
  /\ call.op = "Domain::new"
  /\ call.size = 3
  /\ ~call.res.panic
  /\ Len(Val(call.res).roots) = 4

C17_WitnessRefused ==
  /\ call.op = "RootsOfUnity::new"
  /\ call.size = 3
  /\ call.res.panic

C17_WitnessOutOfRange ==
  /\ call.op = "Domain::new"
  /\ call.size = Pow2(two_adicity) + 1
  /\ call.res.panic

----------------------------------------------------------------------------
(* The bit-reversal permutation: claim C18 *)

Count(seq, x) == Cardinality({i \in 1 .. Len(seq) : seq[i] = x})

\* C18 (as claimed): on every vector whose length is a power of two, length 1
\* included, bit_reversal_permutation returns a permutation of the vector of
\* the same length, and applied twice it returns the vector.
C18_BitReversalInvolution ==
  call.op = "bit_reversal_permutation" =>
    /\ ~call.res.panic
    /\ Len(Val(call.res)) = Len(call.vector)
    /\ \A x \in PermValues : Count(Val(call.res), x) = Count(call.vector, x)
    /\ call.times = 2 => Val(call.res) = call.vector

\* What the code does: the claim holds except that eip4844's permutation of a
\* vector of one element aborts in a build with overflow checks.
BitReversalFacts ==
  call.op = "bit_reversal_permutation" =>
    IF call.crate = "eip4844" /\ call.overflow_checks /\ Len(call.vector) = 1
    THEN call.res.panic
    ELSE /\ ~call.res.panic
         /\ Len(Val(call.res)) = Len(call.vector)
         /\ \A x \in PermValues : Count(Val(call.res), x) = Count(call.vector, x)
         /\ call.times = 2 => Val(call.res) = call.vector

C18_WitnessAbort ==
  /\ call.op = "bit_reversal_permutation"
  /\ Len(call.vector) = 1
  /\ call.res.panic

C18_WitnessTwice ==
  /\ call.op = "bit_reversal_permutation"
  /\ call.crate = "eip4844"
  /\ call.times = 2
  /\ Len(call.vector) = 4
  /\ call.vector[2] # call.vector[3]
  /\ Val(call.res) = call.vector

----------------------------------------------------------------------------
(* In-domain evaluation: claim C20 *)

\* C20 (as claimed): the evaluation of a polynomial at z = roots[i] returns
\* evals[i]; it is a lookup, not a failure.
C20_InDomainLookup ==
  call.op = "evaluate_outside_of_domain" =>
    \A i \in 1 .. Len(domain.inner) :
      domain.inner[i] = call.z => (~call.res.panic /\ Val(call.res) = call.poly[i])

\* What the code does: the evaluation aborts at every root of the domain, and
\* returns the value of the interpolant everywhere else.
EvaluationFacts ==
  call.op = "evaluate_outside_of_domain" =>
    IF RootsOfUnity_contains(domain, call.z) THEN call.res.panic
    ELSE ~call.res.panic /\ Val(call.res) = InterpolantAt(call.poly, call.z)

C20_WitnessAbort ==
  /\ call.op = "evaluate_outside_of_domain"
  /\ call.z = domain.inner[2]
  /\ call.res.panic

C20_WitnessOutside ==
  /\ call.op = "evaluate_outside_of_domain"
  /\ ~RootsOfUnity_contains(domain, call.z)
  /\ ~call.res.panic
  /\ Val(call.res) # 0

----------------------------------------------------------------------------
(* Decoding: claims C11, C12 and C13 *)

\* Chunk i of a buffer encodes a scalar: its little-endian value is below the
\* modulus, which is below 256
CanonicalChunk(bytes, i) ==
  /\ bytes[(i - 1) * SCALAR_SERIALIZED_SIZE + 1] < ScalarModulus
  /\ \A k \in 2 .. SCALAR_SERIALIZED_SIZE : bytes[(i - 1) * SCALAR_SERIALIZED_SIZE + k] = 0

\* The blob has a length that is a positive multiple of 32 and canonical chunks
BlobDecodes(bytes) ==
  /\ Len(bytes) > 0
  /\ Len(bytes) % SCALAR_SERIALIZED_SIZE = 0
  /\ \A i \in 1 .. (Len(bytes) \div SCALAR_SERIALIZED_SIZE) : CanonicalChunk(bytes, i)

BlobEntryPoints ==
  {"blob_to_kzg_commitment", "blobs_to_kzg_commitments", "compute_aggregated_kzg_proof",
   "verify_aggregated_kzg_proof"}

IsNone(res) == ~res.panic /\ ~res.some

\* C11 (as claimed): every entry point of Context that takes blobs returns
\* None, without aborting, when some blob is empty, has a length not divisible
\* by 32, or has a chunk that is not a canonical scalar.
C11_DecodingErrorsAreNone ==
  (call.op \in BlobEntryPoints /\ \E j \in 1 .. Len(call.blobs) : ~BlobDecodes(call.blobs[j]))
    => IsNone(call.res)

\* The code turns the blob into a polynomial: it decodes and its number of
\* chunks is a power of two
BlobIsPolynomial(bytes) ==
  BlobDecodes(bytes) /\ \E k \in 0 .. WordBits : Len(bytes) \div SCALAR_SERIALIZED_SIZE = Pow2(k)

\* The code aborts on the blob: it is empty, or its chunks are canonical and
\* their number is not a power of two
BlobAborts(bytes) ==
  \/ Len(bytes) = 0
  \/ BlobDecodes(bytes) /\ ~BlobIsPolynomial(bytes)

\* What the code does: with a blob that does not decode no entry point returns
\* a result; the first blob that is not turned into a polynomial decides
\* between None and an abort.
DecodingFacts ==
  (call.op \in BlobEntryPoints /\ \E j \in 1 .. Len(call.blobs) : ~BlobIsPolynomial(call.blobs[j]))
    => LET first == CHOOSE j \in 1 .. Len(call.blobs) :
                      /\ ~BlobIsPolynomial(call.blobs[j])
                      /\ \A i \in 1 .. (j - 1) : BlobIsPolynomial(call.blobs[i])
       IN  /\ ~call.res.some
           /\ call.res.panic <=> BlobAborts(call.blobs[first])

C11_WitnessAbort ==
  /\ call.op = "compute_aggregated_kzg_proof"
  /\ call.blobs = <<<<>>>>
  /\ call.res.panic

C11_WitnessNone ==
  /\ call.op = "verify_aggregated_kzg_proof"
  /\ Len(call.blobs) = 2
  /\ BlobDecodes(call.blobs[1])
  /\ Len(call.blobs[2]) % SCALAR_SERIALIZED_SIZE # 0
  /\ IsNone(call.res)

\* C12 (as claimed): the blob codec returns an error, not a polynomial and not
\* an abort, for every buffer whose number of 32-byte chunks is not
\* FIELD_ELEMENTS_PER_BLOB.
C12_ChunkCountChecked ==
  (call.op = "blob_bytes_to_polynomial"
     /\ Len(call.bytes) \div SCALAR_SERIALIZED_SIZE # FIELD_ELEMENTS_PER_BLOB)
    => IsNone(call.res)

\* What the code does: the number of chunks is not compared with
\* FIELD_ELEMENTS_PER_BLOB; a buffer of canonical chunks gives a polynomial
\* when their number is a power of two and an abort when it is not, and the
\* empty buffer gives an abort in eip4844 and None in specs.
CodecFacts ==
  call.op = "blob_bytes_to_polynomial" =>
    /\ call.res.some <=> BlobIsPolynomial(call.bytes)
    /\ call.res.some =>
         /\ Len(Val(call.res)) = Len(call.bytes) \div SCALAR_SERIALIZED_SIZE
         /\ PolynomialBytes(Val(call.res), 1) = call.bytes
    /\ call.res.panic <=>
         \/ BlobDecodes(call.bytes) /\ ~BlobIsPolynomial(call.bytes)
         \/ Len(call.bytes) = 0 /\ call.crate = "eip4844"

C12_WitnessPolynomial ==
  /\ call.op = "blob_bytes_to_polynomial"
  /\ Len(call.bytes) = 2 * SCALAR_SERIALIZED_SIZE
  /\ call.res.some

C12_WitnessAbort ==
  /\ call.op = "blob_bytes_to_polynomial"
  /\ Len(call.bytes) = 3 * SCALAR_SERIALIZED_SIZE
  /\ call.res.panic

PointDecodes(bytes) == \E point \in G1Points : G1Encoding[point] = bytes

PointOf(bytes) == CHOOSE point \in G1Points : G1Encoding[point] = bytes

ScalarDecodes(bytes) == CanonicalChunk(bytes, 1)

\* Every byte input of the call decodes; a blob has FIELD_ELEMENTS_PER_BLOB
\* scalars
InputsDecode ==
  IF call.op = "verify_aggregated_kzg_proof"
  THEN /\ \A j \in 1 .. Len(call.blobs) :
            /\ BlobDecodes(call.blobs[j])
            /\ Len(call.blobs[j]) = FIELD_ELEMENTS_PER_BLOB * SCALAR_SERIALIZED_SIZE
       /\ \A j \in 1 .. Len(call.comms) : PointDecodes(call.comms[j])
       /\ PointDecodes(call.witness)
  ELSE /\ PointDecodes(call.commitment)
       /\ ScalarDecodes(call.input_point)
       /\ ScalarDecodes(call.claimed_value)
       /\ PointDecodes(call.proof)

\* C13 (as claimed): when every byte input of verify_aggregated_kzg_proof or
\* verify_kzg_proof decodes, the call returns Some(b), never None and never an
\* abort; None is returned only when some input does not decode.
C13_VerifyDistinguished ==
  call.op \in {"verify_aggregated_kzg_proof", "verify_kzg_proof"} =>
    /\ InputsDecode => call.res.some
    /\ IsNone(call.res) => ~InputsDecode

\* What the code does: verify_kzg_proof is as claimed, b being the outcome of
\* e(C - y G1, G2) = e(proof, (tau - z) G2); verify_aggregated_kzg_proof aborts,
\* on inputs that decode, when the list of blobs is empty, when the numbers of
\* blobs and of commitments differ and when the evaluation challenge is a root
\* of the domain.
VerifyFacts ==
  /\ call.op = "verify_kzg_proof" =>
       /\ ~call.res.panic
       /\ call.res.some <=> InputsDecode
       /\ call.res.some =>
            (Val(call.res) <=>
               FrSub(PointOf(call.commitment), LEModOrder(call.claimed_value, 1))
                 = FrMul(PointOf(call.proof),
                         FrSub(SECRET_TAU % ScalarModulus, LEModOrder(call.input_point, 1))))
  /\ (call.op = "verify_aggregated_kzg_proof" /\ InputsDecode) =>
       /\ ~IsNone(call.res)
       /\ call.res.panic <=>
            \/ Len(call.blobs) = 0
            \/ Len(call.blobs) # Len(call.comms)
            \/ /\ Len(call.challenges) = 2
               /\ RootsOfUnity_contains(domain, call.challenges[2])

C13_WitnessAbort ==
  /\ call.op = "verify_aggregated_kzg_proof"
  /\ InputsDecode
  /\ Len(call.blobs) = 1
  /\ Len(call.comms) = 0
  /\ call.res.panic

C13_WitnessRejected ==
  /\ call.op = "verify_aggregated_kzg_proof"
  /\ InputsDecode
  /\ Len(call.blobs) = 2
  /\ call.res.some
  /\ ~Val(call.res)

C13_WitnessAccepted ==
  /\ call.op = "verify_aggregated_kzg_proof"
  /\ InputsDecode
  /\ call.res.some
  /\ Val(call.res)

C13_WitnessSingle ==
  /\ call.op = "verify_kzg_proof"
  /\ InputsDecode
  /\ call.res.some
  /\ Val(call.res)

----------------------------------------------------------------------------
(* Context construction: claim C19 *)

Bit(x, b) == (x \div Pow2(b)) % 2

\* The index whose k low bits are those of i in reverse order
BitRev(i, k) ==
  CHOOSE j \in 0 .. (Pow2(k) - 1) : \A b \in 0 .. (k - 1) : Bit(j, b) = Bit(i, k - 1 - b)

Log2(n) == CHOOSE k \in 0 .. WordBits : n = Pow2(k)

\* L_j(tau) on the roots omega^0 .. omega^(n-1), j counted from 0
LagrangeAt(omega, n, j, tau) ==
  ProdOver([m \in 1 .. n |->
              IF m - 1 = j THEN 1
              ELSE FrMul(FrSub(tau, FrPow(omega, m - 1)),
                         inverse(FrSub(FrPow(omega, j), FrPow(omega, m - 1))))],
           1, n)

\* C19: Context construction applies the bit-reversal permutation once to the
\* domain roots and to the Lagrange commit key and changes nothing else:
\* commit_key.inner[i] = L_{bitrev(i)}(tau) G1 and roots[i] = omega^{bitrev(i)}
\* for every i < n, with the opening key and the inverse domain size those of
\* the setup; Domain::permute permutes the roots the same way and keeps the
\* size, the inverse size, the generator and its inverse.
C19_ContextPermutedOnce ==
  /\ call.op = "Context::new_insecure" =>
       LET n == FIELD_ELEMENTS_PER_BLOB
           k == Log2(n)
           tau == SECRET_TAU % ScalarModulus
           omega == Val(compute_generator_for_size(n))
           res == call.res
       IN  /\ Len(res.public_parameters.commit_key.inner) = n
           /\ Len(res.roots_of_unity.inner) = n
           /\ \A i \in 0 .. (n - 1) :
                /\ res.public_parameters.commit_key.inner[i + 1]
                     = G1Mul(G1Generator, LagrangeAt(omega, n, BitRev(i, k), tau))
                /\ res.roots_of_unity.inner[i + 1] = FrPow(omega, BitRev(i, k))
           /\ res.public_parameters.opening_key
                = [g1_gen |-> G1Generator, g2_gen |-> G2Generator,
                   tau_g2_gen |-> FrMul(G2Generator, tau)]
           /\ FrMul(res.roots_of_unity.inverse_domain_size, n % ScalarModulus) = 1
  /\ (call.op = "Domain::permute" /\ ~call.res.panic) =>
       LET d == call.d
           n == Len(d.roots)
           res == Val(call.res)
       IN  /\ Len(res.roots) = n
           /\ \A i \in 0 .. (n - 1) : res.roots[i + 1] = FrPow(d.generator, BitRev(i, Log2(n)))
           /\ res.domain_size = d.domain_size
           /\ res.domain_size_inv = d.domain_size_inv
           /\ res.generator = d.generator
           /\ res.generator_inv = d.generator_inv

\* A context whose commit key and roots are not in natural order
C19_Witness ==
  /\ call.op = "Context::new_insecure"
  /\ call.res.public_parameters.commit_key.inner
       # PublicParameters_from_secret(SECRET_TAU, FIELD_ELEMENTS_PER_BLOB).commit_key.inner
  /\ call.res.roots_of_unity.inner # Val(RootsOfUnity_new(FIELD_ELEMENTS_PER_BLOB)).inner

C19_WitnessDomain ==
  /\ call.op = "Domain::permute"
  /\ ~call.res.panic
  /\ Val(call.res).roots # call.d.roots

----------------------------------------------------------------------------
(* Out-of-domain evaluation: claim C21 *)

\* a / b in the field, for b not zero
FrDiv(a, b) == CHOOSE q \in Scalars : FrMul(q, b) = a

\* (z^n - 1)/n * sum_i evals[i] * roots[i] / (z - roots[i])
Barycentric(evals, roots, z) ==
  LET n == Len(evals)
  IN  FrMul(FrDiv(FrSub(FrPow(z, n), 1), n % ScalarModulus),
            SumOver([i \in 1 .. n |-> FrDiv(FrMul(evals[i], roots[i]), FrSub(z, roots[i]))],
                    1, n))

\* C21: for every z not in the domain the evaluation returns
\* (z^n - 1)/n * sum_i evals[i]*roots[i]/(z - roots[i]), the value at z of the
\* polynomial of degree < n that takes the value evals[i] at roots[i]; no
\* denominator z - roots[i] is zero, and the result is the same when roots and
\* evals are reordered by the same permutation.
C21_OutOfDomainEvaluation ==
  (/\ call.op \in {"evaluate_outside_of_domain", "evaluate_reordered"}
   /\ ~RootsOfUnity_contains(domain, call.z)) =>
    /\ \A i \in 1 .. Len(domain.inner) : FrSub(call.z, domain.inner[i]) # 0
    /\ ~call.res.panic
    /\ Val(call.res) = Barycentric(call.poly, domain.inner, call.z)
    /\ Val(call.res) = InterpolantAt(call.poly, call.z)
    /\ call.op = "evaluate_reordered" => call.res_reordered = call.res

C21_Witness ==
  /\ call.op = "evaluate_reordered"
  /\ ~RootsOfUnity_contains(domain, call.z)
  /\ call.perm # [i \in 1 .. Len(call.poly) |-> i]
  /\ [i \in 1 .. Len(call.poly) |-> call.poly[call.perm[i]]] # call.poly
  /\ ~call.res_reordered.panic
  /\ Val(call.res_reordered) # 0

----------------------------------------------------------------------------
(* The quotient polynomial: claims C22 and C23 *)

\* C22: for z not in the domain and y = poly(z) the quotient has length n and
\* q[i] * (roots[i] - z) = evals[i] - y for every i < n; the batch inversion
\* of the denominators meets no zero.
C22_QuotientOutsideDomain ==
  (call.op = "quotient_poly::compute" /\ ~RootsOfUnity_contains(domain, call.z)) =>
    /\ call.y = InterpolantAt(call.poly, call.z)
    /\ \A i \in 1 .. Len(domain.inner) : FrSub(domain.inner[i], call.z) # 0
    /\ ~call.res.panic
    /\ Len(Val(call.res)) = Len(domain.inner)
    /\ \A i \in 1 .. Len(domain.inner) :
         /\ FrMul(Val(call.res)[i], FrSub(domain.inner[i], call.z))
              = FrSub(call.poly[i], call.y)
         /\ Val(call.res)[i] = FrDiv(FrSub(call.poly[i], call.y),
                                     FrSub(domain.inner[i], call.z))

C22_Witness ==
  /\ call.op = "quotient_poly::compute"
  /\ ~RootsOfUnity_contains(domain, call.z)
  /\ ~call.res.panic
  /\ \E i \in 1 .. Len(domain.inner) : Val(call.res)[i] # 0

\* The quotient the claim gives for z = roots[m] and y = evals[m]
QuotientInDomain(poly, roots, m) ==
  [i \in 1 .. Len(roots) |->
     IF i # m THEN FrDiv(FrSub(poly[i], poly[m]), FrSub(roots[i], roots[m]))
     ELSE SumOver([j \in 1 .. Len(roots) |->
                     IF j = m THEN 0
                     ELSE FrDiv(FrMul(FrSub(poly[j], poly[m]), roots[j]),
                                FrMul(roots[m], FrSub(roots[m], roots[j])))],
                  1, Len(roots))]

\* C23 (as claimed): for z = roots[m] and y = evals[m] the quotient computation
\* returns a polynomial of length n with
\* q[i] = (evals[i] - y)/(roots[i] - roots[m]) for i # m and
\* q[m] = sum over i # m of ((evals[i] - y) * roots[i]) / (roots[m] * (roots[m] - roots[i])).
C23_QuotientInDomain ==
  (call.op = "quotient_poly::compute" /\ RootsOfUnity_contains(domain, call.z)) =>
    /\ ~call.res.panic
    /\ Val(call.res) = QuotientInDomain(call.poly, domain.inner, Domain_find(domain, call.z))

\* What the code does: for every z in the domain the computation aborts.
QuotientInDomainFacts ==
  (call.op = "quotient_poly::compute" /\ RootsOfUnity_contains(domain, call.z)) =>
    /\ call.y = call.poly[Domain_find(domain, call.z)]
    /\ call.res.panic

C23_WitnessAbort ==
  /\ call.op = "quotient_poly::compute"
  /\ call.z = domain.inner[3]
  /\ call.poly[3] # call.poly[1]
  /\ call.res.panic

----------------------------------------------------------------------------
(* The inverse FFT on group elements: claim C24 *)

\* C24: for every domain size n, secret tau and coefficients c of length n,
\* output i of ifft_g1 on the monomial SRS {tau^i G1} is L_i(tau) G1, so that
\* committing to c with the monomial SRS equals committing to the evaluations
\* evals[k] = sum_i c[i] roots[k]^i with the transformed SRS; ifft_g1 aborts
\* when the number of points differs from the size of the domain.
C24_IfftG1 ==
  call.op = "into_lagrange" =>
    LET n == Len(call.d.roots)
    IN  IF Len(call.monomial_srs) # n THEN call.res.panic
        ELSE /\ ~call.res.panic
             /\ Len(Val(call.res).inner) = n
             /\ \A i \in 1 .. n :
                  /\ call.monomial_srs[i] = G1Mul(G1Generator, FrPow(call.secret, i - 1))
                  /\ Val(call.res).inner[i]
                       = G1Mul(G1Generator, LagrangeAt(call.d.generator, n, i - 1, call.secret))
                  /\ call.f_x_evaluations[i]
                       = SumOver([j \in 1 .. n |->
                                    FrMul(call.f_x_coeffs[j], FrPow(call.d.roots[i], j - 1))],
                                 1, n)
             /\ g1_lincomb(call.monomial_srs, call.f_x_coeffs)
                  = g1_lincomb(Val(call.res).inner, call.f_x_evaluations)

C24_Witness ==
  /\ call.op = "into_lagrange"
  /\ Len(call.d.roots) = Pow2(KzgLogSize)
  /\ ~call.res.panic
  /\ Val(call.res).inner # call.monomial_srs
  /\ ~(call.secret \in {0, 1})
  /\ Val(g1_lincomb(call.monomial_srs, call.f_x_coeffs)) # 0

C24_WitnessAbort ==
  /\ call.op = "into_lagrange"
  /\ Len(call.monomial_srs) = Len(call.d.roots) + 1
  /\ call.res.panic

----------------------------------------------------------------------------
(* The compressed point codec: claim C25 *)

\* C25: deserialize_g1(serialize_g1(p)) = p and
\* deserialize_g2(serialize_g2(p)) = p for every valid point p; the encoding of
\* the point at infinity has the compression and infinity flags set and every
\* other bit zero; the top three bits of byte 0 are the compression, infinity
\* and sign flags, and the sign flag is set only for a point that is not at
\* infinity and whose y is the larger of y and -y.
C25_PointCodecRoundTrip ==
  call.op \in {"serialize_g1", "serialize_g2"} =>
    LET size == IF call.op = "serialize_g1" THEN G1_SERIALISED_SIZE ELSE G2_SERIALISED_SIZE
        larger == IF call.op = "serialize_g1"
                  THEN \A y \in Fq : (y + call.p.y) % FqModulus = 0 => call.p.y > y
                  ELSE \A y \in Fq2 :
                         Fq2Add(y, call.p.y) = Fp2_new(0, 0) => Fq2Greater(call.p.y, y)
    IN  /\ Len(call.enc) = size
        /\ call.res = Some(call.p)
        /\ call.enc[1] >= 128
        /\ (call.enc[1] \div 64) % 2 = 1 <=> call.p.infinity
        /\ (call.enc[1] \div 32) % 2 = 1 <=> (~call.p.infinity /\ larger)
        /\ call.p.infinity => call.enc = [i \in 1 .. size |-> IF i = 1 THEN 192 ELSE 0]

C25_Witness ==
  /\ call.op = "serialize_g2"
  /\ ~call.p.infinity
  /\ call.p.x.c0 # call.p.x.c1
  /\ call.p.x.c1 # 0
  /\ (call.enc[1] \div 32) % 2 = 1
  /\ call.res = Some(call.p)

C25_WitnessG1 ==
  /\ call.op = "serialize_g1"
  /\ ~call.p.infinity
  /\ (call.enc[1] \div 32) % 2 = 1
  /\ call.res = Some(call.p)

C25_WitnessInfinity ==
  /\ call.op = "serialize_g1"
  /\ call.p.infinity
  /\ call.res = Some(call.p)

----------------------------------------------------------------------------
(* Aggregation: claim C26 *)

\* Polynomials of one length
SameLength(polys) == \A j \in 1 .. Len(polys) : Len(polys[j]) = Len(polys[1])

\* C26: compute_powers(x, m) = [x^0, ..., x^(m-1)]; for polynomials of one
\* length with as many commitments, compute_aggregate_poly_and_comm returns
\* agg_poly of that length with agg_poly[i] = sum_j r^j * polys[j].evals[i] and
\* agg_comm = sum_j r^j * comms[j]; when every commitment is the commitment to
\* its polynomial, agg_comm is the commitment to agg_poly.
C26_AggregateIsLinearCombination ==
  /\ call.op = "compute_powers" =>
       /\ Len(call.res) = call.n
       /\ call.n > 0 => call.res[1] = 1
       /\ \A i \in 1 .. (call.n - 1) : call.res[i + 1] = FrMul(call.res[i], call.x)
  /\ (/\ call.op = "compute_aggregate_poly_and_comm"
      /\ Len(call.polys) >= 1
      /\ Len(call.comms) = Len(call.polys)
      /\ SameLength(call.polys)) =>
       LET m == Len(call.polys)
           r == call.res.challenges[1]
           rpow == [j \in 1 .. m |-> FrPow(r, j - 1)]
       IN  /\ ~call.res.panic
           /\ Len(call.res.aggregated_poly) = Len(call.polys[1])
           /\ \A i \in 1 .. Len(call.polys[1]) :
                call.res.aggregated_poly[i]
                  = SumOver([j \in 1 .. m |-> FrMul(rpow[j], call.polys[j][i])], 1, m)
           /\ call.res.aggregated_comm
                = SumOver([j \in 1 .. m |-> G1Mul(call.comms[j], rpow[j])], 1, m)
           /\ (\A j \in 1 .. m :
                 /\ Len(call.polys[j]) = Len(pp.commit_key.inner)
                 /\ call.comms[j] = Val(CommitKeyLagrange_commit(pp.commit_key, call.polys[j])))
                => call.res.aggregated_comm
                     = Val(CommitKeyLagrange_commit(pp.commit_key, call.res.aggregated_poly))

C26_Witness ==
  /\ call.op = "compute_aggregate_poly_and_comm"
  /\ Len(call.polys) = 2
  /\ Len(call.comms) = 2
  /\ call.polys[1] # call.polys[2]
  /\ \A j \in 1 .. 2 :
       /\ Len(call.polys[j]) = Len(pp.commit_key.inner)
       /\ call.comms[j] = Val(CommitKeyLagrange_commit(pp.commit_key, call.polys[j]))
       /\ call.comms[j] # 0
  /\ ~call.res.panic
  /\ call.res.challenges[1] > 1
  /\ call.res.aggregated_comm # 0

C26_WitnessPowers ==
  /\ call.op = "compute_powers"
  /\ call.n = MaxPolys + 1
  /\ call.x > 1

----------------------------------------------------------------------------
(* Shape mismatches: claim C28 *)

\* C28 (as claimed): g1_lincomb with len(points) # len(scalars), from_polys
\* and compute_aggregate_poly_and_comm with len(polys) # len(poly_comms), and
\* the evaluation of a polynomial whose length is not the domain size abort,
\* so that nothing is produced from mismatched inputs: a batch with a
\* polynomial whose length is not the domain size gives no aggregate and no
\* proof.
C28_ShapeMismatchAborts ==
  /\ (call.op = "g1_lincomb" /\ Len(call.points) # Len(call.scalars)) => call.res.panic
  /\ (call.op = "from_polys" /\ Len(call.polys) # Len(call.comms)) => call.panic
  /\ (call.op = "compute_aggregate_poly_and_comm" /\ Len(call.polys) # Len(call.comms))
       => call.res.panic
  /\ (call.op = "evaluate_outside_of_domain" /\ Len(call.poly) # RootsOfUnity_size(domain))
       => call.res.panic
  /\ (/\ call.op \in {"compute_aggregate_poly_and_comm", "create", "verify"}
      /\ \E j \in 1 .. Len(call.polys) : Len(call.polys[j]) # RootsOfUnity_size(domain))
       => call.res.panic

\* The least length of the polynomials of a batch that is not empty
MinLength(polys) ==
  CHOOSE n \in {Len(polys[j]) : j \in 1 .. Len(polys)} :
    \A j \in 1 .. Len(polys) : n <= Len(polys[j])

\* What the code does: the four checks the claim lists abort; polynomials of
\* different lengths in a batch are not checked, the aggregate is cut to the
\* least length, and create and verify go on with it when that length is the
\* size of the domain.
ShapeFacts ==
  /\ (call.op = "g1_lincomb" /\ Len(call.points) # Len(call.scalars)) => call.res.panic
  /\ (call.op = "from_polys" /\ Len(call.polys) # Len(call.comms)) => call.panic
  /\ (call.op = "compute_aggregate_poly_and_comm" /\ Len(call.polys) # Len(call.comms))
       => call.res.panic
  /\ (call.op = "evaluate_outside_of_domain" /\ Len(call.poly) # RootsOfUnity_size(domain))
       => call.res.panic
  /\ (/\ call.op = "compute_aggregate_poly_and_comm"
      /\ Len(call.polys) = Len(call.comms)
      /\ Len(call.polys) >= 1) =>
       /\ ~call.res.panic
       /\ Len(call.res.aggregated_poly) = MinLength(call.polys)
  /\ (call.op \in {"create", "verify"} /\ Len(call.polys) >= 1) =>
       (call.res.panic <=>
          \/ MinLength(call.polys) # RootsOfUnity_size(domain)
          \/ RootsOfUnity_contains(domain, call.res.challenges[2]))

C28_WitnessTruncated ==
  /\ call.op = "create"
  /\ Len(call.polys) = 2
  /\ Len(call.polys[1]) = RootsOfUnity_size(domain)
  /\ Len(call.polys[2]) = 2 * RootsOfUnity_size(domain)
  /\ ~call.res.panic

C28_WitnessAbort ==
  /\ call.op = "g1_lincomb"
  /\ Len(call.points) = 2
  /\ Len(call.scalars) = 1
  /\ call.res.panic

----------------------------------------------------------------------------
(* The batch: claim C30 *)

\* C30: after any sequence of empty, from_polys and add, polys and poly_comms
\* have the same length and the j-th commitment is the one supplied with the
\* j-th polynomial, in insertion order; create and verify leave both vectors
\* as they are.
C30_BatchPairing ==
  agg.phase \in {"built", "used"} =>
    /\ Len(agg.polys) = Len(agg.poly_comms)
    /\ Len(agg.polys) = Len(agg.supplied)
    /\ \A j \in 1 .. Len(agg.supplied) :
         /\ agg.polys[j] = agg.supplied[j][1]
         /\ agg.poly_comms[j] = agg.supplied[j][2]
    /\ (agg.phase = "used" /\ call.op \in {"create", "verify"}) =>
         /\ call.polys = agg.polys
         /\ call.comms = agg.poly_comms

C30_Witness ==
  /\ agg.phase = "used"
  /\ call.op = "verify"
  /\ Len(agg.supplied) = 2
  /\ agg.supplied[1][1] # agg.supplied[2][1]
  /\ agg.supplied[1][2] # agg.supplied[2][2]


----------------------------------------------------------------------------
(* Chunked batch inversion: claim C27 *)

\* C27: batch_inversion splits the slice into consecutive chunks of
\* max(len / threads, 1) elements (the last one may be shorter) that are
\* pairwise disjoint and cover the slice; a worker reads and writes the
\* positions of its own chunk only; and on a slice of non-zero scalars no
\* worker panics and, once every worker is done, whatever the order of their
\* passes, the slice is the result of one serial pass over the whole slice (and
\* of the chunked inversion taken as one step), in both files.
C27_ChunkedEqualsSerial ==
  call.op = "batch_inversion" =>
    LET len == Len(call.input)
        size == call.num_elem_per_thread
        serial == IF call.file = "lib.rs" THEN lib_serial_batch_inversion(call.input)
                  ELSE serial_batch_inversion(call.input)
        chunked == IF call.file = "lib.rs"
                   THEN lib_batch_inversion(call.input, call.num_cpus_available)
                   ELSE batch_inversion_rayon(call.input, call.num_cpus_available)
    IN  /\ size = Max(len \div call.num_cpus_available, 1)
        /\ UNION {call.chunks[c] : c \in DOMAIN call.chunks} = 1 .. len
        /\ \A c \in DOMAIN call.chunks :
             /\ call.chunks[c] # {}
             /\ Cardinality(call.chunks[c]) <= size
             /\ c < Len(call.chunks) => Cardinality(call.chunks[c]) = size
             /\ \A e \in DOMAIN call.chunks :
                  c < e => \A i \in call.chunks[c], j \in call.chunks[e] : i < j
             /\ call.reads[c] \cup call.writes[c] \subseteq call.chunks[c]
        /\ NonZeroSlice(call.input) =>
             /\ \A c \in DOMAIN call.chunks : call.pc[c] # "panicked"
             /\ (\A c \in DOMAIN call.chunks : call.pc[c] = "done") =>
                  /\ serial = Ok(call.v)
                  /\ chunked = Ok(call.v)
                  /\ \A i \in 1 .. len : FrMul(call.v[i], call.input[i]) = 1

\* Five non-zero scalars on two threads: chunks of two, two and one elements,
\* all done
C27_Witness ==
  /\ call.op = "batch_inversion"
  /\ NonZeroSlice(call.input)
  /\ Len(call.input) = 5
  /\ call.num_cpus_available = 2
  /\ Len(call.chunks) = 3
  /\ Cardinality(call.chunks[3]) = 1
  /\ \A c \in DOMAIN call.chunks : call.pc[c] = "done"
  /\ call.v # call.input

\* A later chunk is done while an earlier one is between its two passes
C27_WitnessInterleaved ==
  /\ call.op = "batch_inversion"
  /\ NonZeroSlice(call.input)
  /\ \E c, e \in DOMAIN call.chunks :
       c < e /\ call.pc[c] = "inverted" /\ call.pc[e] = "done"


----------------------------------------------------------------------------
(* reverse_bits in both permutation modules: claim C29 *)

\* C29 (as claimed): for every power of two order, 1 included, and every
\* num < order, reverse_bits of eip4844 and of specs both return the number
\* whose low log2(order) bits are those of num in reverse order, which is
\* below order, and no other number below order has that image; an order that
\* is not a power of two is refused by both.
C29_ReverseBitsAgree ==
  call.op = "reverse_bits" =>
    IF is_power_of_two(call.order)
    THEN /\ call.res = Ok(BitRev(call.num, Log2(call.order)))
         /\ call.specs_res = Ok(BitRev(call.num, Log2(call.order)))
         /\ Val(call.res) < call.order
         /\ \A j \in 0 .. (call.order - 1) :
              j # call.num =>
                /\ reverse_bits(j, call.order, call.overflow_checks) # call.res
                /\ specs_reverse_bits(j, call.order) # call.specs_res
    ELSE call.res.panic /\ call.specs_res.panic

\* What the code does: eip4844's reverse_bits is the reversal except that order
\* 1 aborts in a build with overflow checks; the reverse_bits of specs is the
\* reversal as long as order - 1 fits the half word it is cast to, and for a
\* larger order it reverses the bits of num within the width of the half word
\* (or of num, when num is wider); both refuse an order that is not a power of
\* two.
ReverseBitsFacts ==
  call.op = "reverse_bits" =>
    IF is_power_of_two(call.order)
    THEN /\ IF call.order = 1 /\ call.overflow_checks
            THEN call.res.panic
            ELSE /\ call.res = Ok(BitRev(call.num, Log2(call.order)))
                 /\ Val(call.res) < call.order
                 /\ \A j \in 0 .. (call.order - 1) :
                      j # call.num =>
                        reverse_bits(j, call.order, call.overflow_checks) # call.res
         /\ IF call.order <= Pow2(HalfWordBits)
            THEN /\ call.specs_res = Ok(BitRev(call.num, Log2(call.order)))
                 /\ \A j \in 0 .. (call.order - 1) :
                      j # call.num => specs_reverse_bits(j, call.order) # call.specs_res
            ELSE call.specs_res =
                   Ok(BitRev(call.num, Max(HalfWordBits, min_num_bits_needed(call.num))))
    ELSE call.res.panic /\ call.specs_res.panic

\* Order 1 in a build with overflow checks: eip4844 aborts, specs returns 0
C29_WitnessAbort ==
  /\ call.op = "reverse_bits"
  /\ call.order = 1
  /\ call.num = 0
  /\ call.overflow_checks
  /\ call.res.panic
  /\ call.specs_res = Ok(0)

\* An order whose predecessor does not fit the half word: the two modules differ
C29_WitnessDiffer ==
  /\ call.op = "reverse_bits"
  /\ call.order = Pow2(HalfWordBits + 1)
  /\ call.num = 1
  /\ call.res = Ok(Pow2(HalfWordBits))
  /\ call.specs_res = Ok(Pow2(HalfWordBits - 1))

\* The two modules agree on a reversal that is not the identity
C29_WitnessAgree ==
  /\ call.op = "reverse_bits"
  /\ call.order = 8
  /\ call.num = 3
  /\ call.res = Ok(6)
  /\ call.specs_res = Ok(6)

\* An order that is not a power of two is refused
C29_WitnessRefused ==
  /\ call.op = "reverse_bits"
  /\ call.order = 6
  /\ call.res.panic
  /\ call.specs_res.panic

=============================================================================
